---- MODULE Spec2Model ----
\* Webhook idempotency ledger (webhook_events table) and the webhook HTTP
\* action of convex-revenuecat, modelled as a state machine.
\*
\* Every Convex mutation (checkAndRecordEvent, markEventProcessed,
\* unreserveEvent) is one atomic step: mutations are serializable
\* transactions.  The HTTP action handler is a sequence of steps, one per
\* awaited call, so that concurrent deliveries interleave between awaits.
EXTENDS Integers, Sequences, FiniteSets, Bags, TLC

\* ------------------------------------------------------------------ bounds
NumHandlers == 2      \* invocations of the HTTP action kept at a time
MaxTicks == 2         \* the clock runs from 0 to MaxTicks * Tick

\* --------------------------------------------------------------- constants
LOCK_TTL_MS == 10 * 60 * 1000
Tick == LOCK_TTL_MS   \* granularity of the modelled clock (Date.now())
RetryAfterSeconds == "30"

EventIds == {"evt_1"}
EmptyId == ""         \* an event id that is a string, and empty
NoEvent == "<none>"
NoUser == ""

\* Event types of the processEvent switch.
EntitlementEventTypes ==
    {"INITIAL_PURCHASE", "RENEWAL", "CANCELLATION", "UNCANCELLATION",
     "EXPIRATION", "BILLING_ISSUE", "SUBSCRIPTION_EXTENDED",
     "SUBSCRIPTION_PAUSED", "PRODUCT_CHANGE", "NON_RENEWING_PURCHASE",
     "TEMPORARY_ENTITLEMENT_GRANT", "REFUND", "REFUND_REVERSED"}
InformationalEventTypes ==
    {"TEST", "SUBSCRIBER_ALIAS", "INVOICE_ISSUANCE", "EXPERIMENT_ENROLLMENT"}

\* The event types deliveries are drawn from: one of each branch of the
\* switch, "FUTURE_EVENT" standing for a type the switch does not know.
SampleEventTypes ==
    {"INITIAL_PURCHASE", "TRANSFER", "VIRTUAL_CURRENCY_TRANSACTION",
     "TEST", "FUTURE_EVENT"}

\* Answers of the upstream REST API to the requests of one dispatch.
UpstreamAnswers == {"ok", "404", "error"}

VARIABLES
    now,             \* Date.now()
    webhook_events,  \* the webhook_events table: a set of documents
    payload,         \* event id -> the event the sender delivers under that id
    config,          \* RegisterRoutesConfig: which hooks are configured
    deliveries,      \* the invocations of the HTTP action, running or answered:
                     \* a bag of records, one per invocation, with fields
                     \*   pc        position in the handler
                     \*   event     id of the event delivered
                     \*   lockState result of its checkAndRecordEvent
                     \*   response  the HTTP response it returned
                     \*   effects   upstream requests, cache mutations and hook
                     \*             invocations of its dispatch so far, in order
                     \*   done      stages of its dispatch that returned normally
                     \*   logged    the console.error messages it wrote
                     \*   seen      history: what its checkAndRecordEvent found
    completed,       \* history: event id -> dispatches run to completion
    reclaimed,       \* history: event id -> stale locks reclaimed
    subscribers,     \* the subscribers table: a set of documents
    entitlements,    \* the entitlements table: a set of documents
    virtual_currency_balances,   \* the virtual_currency_balances table
    lastCall         \* the last call of the client API or of a query: its
                     \* arguments, the upstream requests it issued, whether it
                     \* threw and what it returned

\* The cache tables and the outcome of the last call on them.
cacheVars == <<subscribers, entitlements, virtual_currency_balances, lastCall>>

vars == <<now, webhook_events, payload, config, deliveries, completed,
          reclaimed, subscribers, entitlements, virtual_currency_balances,
          lastCall>>

\* ------------------------------------------------------- idempotency ledger
NoStatus == "<absent>"   \* a legacy document without the optional status field

\* .withIndex("by_revenuecat_event_id", q => q.eq(...)): the matching documents
Matching(table, id) == {r \in table : r.revenuecatEventId = id}

\* .unique() throws when more than one document matches
UniqueThrows(table, id) == Cardinality(Matching(table, id)) > 1

\* _id of a newly inserted document: never an _id the transaction has seen
NewId(table) ==
    CHOOSE i \in 0 .. Cardinality(table) :
        /\ \A r \in table : r._id # i
        /\ \A j \in 0 .. (i - 1) : \E r \in table : r._id = j

\* age > LOCK_TTL_MS with age = Date.now() - existing.processedAt
IsStaleAtOrAfterTtl(existing, t) == t - existing.processedAt >= LOCK_TTL_MS
IsStale(existing, t) == t - existing.processedAt > LOCK_TTL_MS

\* status === "processed" || status === "processed_pending", after
\* status = existing.status ?? "processed"
IsPermanentOrStale(existing, t) ==
    \/ existing.status \in {NoStatus, "processed", "processed_pending"}
       /\ ~ (t - existing.processedAt > LOCK_TTL_MS)
IsPermanent(existing, t) ==
    (IF existing.status = NoStatus THEN "processed" ELSE existing.status)
        \in {"processed", "processed_pending"}

\* checkAndRecordEvent ignoring a lock that is still held
checkAndRecordEventNoLock(table, id, type, ts, t) ==
    LET m == Matching(table, id)
        fresh == [_id |-> NewId(table), revenuecatEventId |-> id,
                  eventType |-> type, eventTimestampMs |-> ts,
                  processedAt |-> t, status |-> "processing"]
    IN  IF m # {} /\ IsPermanent(CHOOSE r \in m : TRUE, t)
        THEN [result |-> "processed", table |-> table]
        ELSE [result |-> "acquired", table |-> (table \ m) \cup {fresh}]

\* checkAndRecordEvent inserting over an expired lock it does not delete
checkAndRecordEventKeepExpired(table, id, type, ts, t) ==
    LET m == Matching(table, id)
        fresh == [_id |-> NewId(table), revenuecatEventId |-> id,
                  eventType |-> type, eventTimestampMs |-> ts,
                  processedAt |-> t, status |-> "processing"]
    IN  IF m = {}
        THEN [result |-> "acquired", table |-> table \cup {fresh}]
        ELSE LET existing == CHOOSE r \in m : TRUE
             IN  IF IsPermanent(existing, t)
                 THEN [result |-> "processed", table |-> table]
                 ELSE IF existing.status = "processing" /\ ~IsStale(existing, t)
                      THEN [result |-> "processing", table |-> table]
                      ELSE [result |-> "acquired",
                            table |-> table \cup {fresh}]

\* The checkAndRecordEvent mutation at time t: its return value and the table
\* it leaves.
checkAndRecordEvent(table, id, type, ts, t) ==
    LET m == Matching(table, id)
        fresh == [_id |-> NewId(table), revenuecatEventId |-> id,
                  eventType |-> type, eventTimestampMs |-> ts,
                  processedAt |-> t, status |-> "processing"]
    IN  IF m = {}
        THEN [result |-> "acquired", table |-> table \cup {fresh}]
        ELSE LET existing == CHOOSE r \in m : TRUE
             IN  IF IsPermanent(existing, t)
                 THEN [result |-> "processed", table |-> table]
                 ELSE IF existing.status = "processing"
                      THEN IF IsStale(existing, t)
                           THEN [result |-> "acquired",
                                 table |-> (table \ {existing}) \cup {fresh}]
                           ELSE [result |-> "processing", table |-> table]
                      ELSE [result |-> "acquired",
                            table |-> table \cup {fresh}]

\* markEventProcessed patching nothing
markEventProcessedNoPatch(table, id, t) == table

\* The markEventProcessed mutation at time t: the table it leaves.
markEventProcessed(table, id, t) ==
    LET m == Matching(table, id)
    IN  IF m = {} THEN table
        ELSE LET existing == CHOOSE r \in m : TRUE
             IN  (table \ {existing}) \cup
                 {[existing EXCEPT !.status = "processed", !.processedAt = t]}

\* unreserveEvent testing for the wrong status
unreserveEventWrongStatus(table, id) ==
    {r \in table : r.revenuecatEventId # id \/ r.status # "processed"}

\* The unreserveEvent mutation: the table it leaves.
unreserveEvent(table, id) ==
    LET m == Matching(table, id)
    IN  IF m = {} THEN table
        ELSE LET existing == CHOOSE r \in m : TRUE
             IN  IF existing.status = "processing"
                 THEN table \ {existing}
                 ELSE table

\* ------------------------------------------------------------ HTTP responses
NoResponse == [status |-> 0, body |-> "", retryAfter |-> ""]
RespNoAuthKey ==
    [status |-> 500, body |-> "Webhook auth key not configured", retryAfter |-> ""]
RespUnauthorized == [status |-> 401, body |-> "Unauthorized", retryAfter |-> ""]
RespInvalidJson == [status |-> 400, body |-> "Invalid JSON", retryAfter |-> ""]
RespInvalidPayload ==
    [status |-> 400, body |-> "Invalid webhook payload", retryAfter |-> ""]
RespCheckFailed ==
    [status |-> 500, body |-> "Idempotency check failed", retryAfter |-> ""]
RespDuplicate ==
    [status |-> 200, body |-> "{received:true,duplicate:true}", retryAfter |-> ""]
RespRetry ==
    [status |-> 409, body |-> "{received:true,retry:true}",
     retryAfter |-> RetryAfterSeconds]
RespFinalizeFailed ==
    [status |-> 500, body |-> "Failed to finalize event", retryAfter |-> ""]
RespProcessingError ==
    [status |-> 500, body |-> "Error processing webhook", retryAfter |-> ""]
RespReceived == [status |-> 200, body |-> "{received:true}", retryAfter |-> ""]

\* ------------------------------------------------------------ event dispatch
Users == {"u1", "u2"}

\* The side effects a dispatch can have, each with the user it concerns.
UpstreamOps == {"GET customer", "GET entitlements", "GET virtual_currencies"}
CacheOps == {"clearEntitlements", "syncSubscriberAndEntitlements",
             "syncVirtualCurrencyBalances"}
HookOps == {"onEvent", "customHandler"}

\* fullResync that fetches the customer a second time
fullResyncTwice(user, answer, hasLookupMap) ==
    [threw |-> answer \notin {"404", "ok"},
     effects |-> <<<<"GET customer", user>>, <<"GET customer", user>>>>
                 \o (IF answer = "404" THEN <<<<"clearEntitlements", user>>>>
                     ELSE IF answer = "ok"
                     THEN <<<<"syncSubscriberAndEntitlements", user>>>>
                     ELSE <<>>)]

\* fullResync of one user: the requests and mutations it makes, and whether it
\* throws.  answer is upstream's answer to GET customer; the lookup map is
\* fetched unless the caller passes one.
fullResync(user, answer, hasLookupMap) ==
    CASE answer = "404" ->
           [threw |-> FALSE,
            effects |-> <<<<"GET customer", user>>,
                          <<"clearEntitlements", user>>>>]
      [] answer = "ok" ->
           [threw |-> FALSE,
            effects |-> <<<<"GET customer", user>>>>
                        \o (IF hasLookupMap THEN <<>>
                            ELSE <<<<"GET entitlements", NoUser>>>>)
                        \o <<<<"syncSubscriberAndEntitlements", user>>>>]
      [] OTHER ->
           [threw |-> TRUE, effects |-> <<<<"GET customer", user>>>>]

\* new Set<string>() filled in order, skipping falsy ids: the distinct
\* non-empty ids of ids, in order of first occurrence
RECURSIVE SetOrder(_, _)
SetOrder(ids, added) ==
    IF ids = <<>> THEN <<>>
    ELSE IF Head(ids) = NoUser \/ Head(ids) \in added
         THEN SetOrder(Tail(ids), added)
         ELSE <<Head(ids)>> \o SetOrder(Tail(ids), added \cup {Head(ids)})

\* for (const id of userIds) await fullResync(..., id, lookupMap)
RECURSIVE ResyncAll(_, _)
ResyncAll(ids, upstream) ==
    IF ids = <<>> THEN [threw |-> FALSE, effects |-> <<>>]
    ELSE LET first == fullResync(Head(ids), upstream[Head(ids)], TRUE)
         IN  IF first.threw THEN first
             ELSE LET rest == ResyncAll(Tail(ids), upstream)
                  IN  [threw |-> rest.threw,
                       effects |-> first.effects \o rest.effects]

\* processEvent that checks the API key and project id before the switch
processEventNeedsCredentials(ev, apiKey, projectId, upstream) ==
    IF ~apiKey \/ ~projectId
    THEN [threw |-> TRUE, effects |-> <<>>]
    ELSE [threw |-> FALSE, effects |-> <<>>]

\* processEvent: what the built-in effect of event ev does when the API key
\* and project id are set or not and upstream answers as given.
processEvent(ev, apiKey, projectId, upstream) ==
    LET appUserId == ev.app_user_id
    IN  CASE ev.type \in EntitlementEventTypes ->
               IF ~apiKey \/ ~projectId \/ appUserId = NoUser
               THEN [threw |-> TRUE, effects |-> <<>>]
               ELSE fullResync(appUserId, upstream[appUserId], FALSE)
          [] ev.type = "TRANSFER" ->
               IF ~apiKey \/ ~projectId
               THEN [threw |-> TRUE, effects |-> <<>>]
               ELSE LET userIds == SetOrder(<<appUserId>> \o ev.transferred_from
                                            \o ev.transferred_to, {})
                        all == ResyncAll(userIds, upstream)
                    IN  [threw |-> all.threw,
                         effects |-> <<<<"GET entitlements", NoUser>>>>
                                     \o all.effects]
          [] ev.type = "VIRTUAL_CURRENCY_TRANSACTION" ->
               IF ~apiKey \/ ~projectId \/ appUserId = NoUser
               THEN [threw |-> TRUE, effects |-> <<>>]
               ELSE IF upstream[appUserId] # "ok"
                    THEN [threw |-> TRUE,
                          effects |-> <<<<"GET virtual_currencies", appUserId>>>>]
                    ELSE [threw |-> FALSE,
                          effects |-> <<<<"GET virtual_currencies", appUserId>>,
                                        <<"syncVirtualCurrencyBalances", appUserId>>>>]
          [] ev.type \in InformationalEventTypes ->
               [threw |-> FALSE, effects |-> <<>>]
          [] OTHER -> [threw |-> FALSE, effects |-> <<>>]

\* ---------------------------------------------------------- handler routing
\* Step 4 without its early returns.
LockRouteAlwaysProcess(state) ==
    [pc |-> "processEvent", response |-> NoResponse]

\* Step 4 without the early return on "processed".
LockRouteProcessedRuns(state) ==
    CASE state = "processing" -> [pc |-> "done", response |-> RespRetry]
      [] OTHER -> [pc |-> "processEvent", response |-> NoResponse]

\* Step 4 without the early return on "processing".
LockRouteProcessingRuns(state) ==
    CASE state = "processed" -> [pc |-> "done", response |-> RespDuplicate]
      [] OTHER -> [pc |-> "processEvent", response |-> NoResponse]

\* Step 4 of the handler: where a delivery goes after checkAndRecordEvent.
LockRoute(state) ==
    CASE state = "processed" -> [pc |-> "done", response |-> RespDuplicate]
      [] state = "processing" -> [pc |-> "done", response |-> RespRetry]
      [] OTHER -> [pc |-> "processEvent", response |-> NoResponse]

\* Step 5 with the hooks' exceptions caught and dropped.
AfterStageSwallow(stage, threw, cfg, type) ==
    CASE threw /\ stage = "processEvent" -> "unreserve"
      [] stage = "processEvent" /\ cfg.onEvent -> "onEvent"
      [] stage \in {"processEvent", "onEvent"} /\ type \in cfg.events ->
             "customHandler"
      [] OTHER -> "mark"

\* Step 5 marking the event before the hooks have run.
AfterStageSkipHooks(stage, threw, cfg, type) ==
    IF threw THEN "unreserve" ELSE "mark"

\* Step 5 with the per-type handler called before config.onEvent.
AfterStagePerTypeFirst(stage, threw, cfg, type) ==
    CASE threw -> "unreserve"
      [] stage = "processEvent" /\ type \in cfg.events -> "customHandler"
      [] stage \in {"processEvent", "customHandler"} /\ cfg.onEvent -> "onEvent"
      [] OTHER -> "mark"

\* Step 5 going on to markEventProcessed after a stage threw.
AfterStageMarksFailures(stage, threw, cfg, type) ==
    CASE threw -> "mark"
      [] stage = "processEvent" /\ cfg.onEvent -> "onEvent"
      [] stage \in {"processEvent", "onEvent"} /\ type \in cfg.events ->
             "customHandler"
      [] OTHER -> "mark"

\* Step 5 of the handler: the stage after stage, which threw or returned.
\* processEvent, then config.onEvent, then eventHandlers[event.type].
AfterStage(stage, threw, cfg, type) ==
    CASE threw -> "unreserve"
      [] stage = "processEvent" /\ cfg.onEvent -> "onEvent"
      [] stage \in {"processEvent", "onEvent"} /\ type \in cfg.events ->
             "customHandler"
      [] OTHER -> "mark"

\* The stages a dispatch has to complete under configuration cfg.
StagesOf(cfg, type) ==
    {"processEvent"} \cup (IF cfg.onEvent THEN {"onEvent"} ELSE {})
                     \cup (IF type \in cfg.events THEN {"customHandler"} ELSE {})

\* JavaScript values of the fields of a webhook body, with their typeof.
Undefined == [typeof |-> "undefined", str |-> "", num |-> 0]
Str(s) == [typeof |-> "string", str |-> s, num |-> 0]
Num(n) == [typeof |-> "number", str |-> "", num |-> n]

\* A request body: text that JSON.parse accepts or not, and the event of the
\* parsed payload, if it has one, with its id, type and event_timestamp_ms.
Body(json, hasEvent, id, type, ts) ==
    [json |-> json, hasEvent |-> hasEvent, id |-> id, type |-> type,
     event_timestamp_ms |-> ts]

\* The Authorization header: null, or a scheme and a credential.
NoHeader == <<>>
Bearer(key) == <<"Bearer", key>>

\* The webhook auth key when neither the configuration nor the environment
\* sets it.
NoKey == ""

\* Step 3: the shape test of the parsed payload.
ValidShape(body) ==
    /\ body.hasEvent
    /\ body.id.typeof = "string"
    /\ body.type.typeof = "string"
    /\ body.event_timestamp_ms.typeof = "number"

\* Steps 1-3 with the body parsed before the credential is verified.
IngressParseFirst(webhookAuthKey, authHeader, body) ==
    IF ~body.json THEN RespInvalidJson
    ELSE IF ~ValidShape(body) THEN RespInvalidPayload
    ELSE IF webhookAuthKey = NoKey THEN RespNoAuthKey
    ELSE IF authHeader = NoHeader \/ authHeader # Bearer(webhookAuthKey)
         THEN RespUnauthorized
    ELSE NoResponse

\* Steps 1-3 of the handler: the response to a request that is rejected before
\* the ledger is consulted, NoResponse when the request goes on to step 4.
Ingress(webhookAuthKey, authHeader, body) ==
    IF webhookAuthKey = NoKey THEN RespNoAuthKey
    ELSE IF authHeader = NoHeader \/ authHeader # Bearer(webhookAuthKey)
         THEN RespUnauthorized
    ELSE IF ~body.json THEN RespInvalidJson
    ELSE IF ~ValidShape(body) THEN RespInvalidPayload
    ELSE NoResponse

\* console.error of each failure response
ErrorLog(resp) ==
    CASE resp = RespNoAuthKey -> {"REVENUECAT_WEBHOOK_AUTH_KEY is not set"}
      [] resp = RespUnauthorized -> {"Webhook authorization failed"}
      [] resp = RespInvalidJson -> {"Failed to parse webhook body"}
      [] resp = RespInvalidPayload -> {"Invalid webhook payload"}
      [] resp = RespCheckFailed -> {"Failed to acquire idempotency lock"}
      [] resp = RespFinalizeFailed -> {"Failed to mark event as processed"}
      [] resp = RespProcessingError -> {"Error processing webhook"}
      [] OTHER -> {}
ReleaseFailedLog == "Failed to release lock after processing failure"

\* ------------------------------------------------------------------ history
\* What a checkAndRecordEvent call found: the status of the document ("absent"
\* when there is none) and its age against the ten minutes of the TTL.
NotChecked == [status |-> "", age |-> ""]
Seen(table, id, t) ==
    LET m == Matching(table, id)
    IN  IF m = {} THEN [status |-> "absent", age |-> ""]
        ELSE LET existing == CHOOSE r \in m : TRUE
                 age == t - existing.processedAt
             IN  [status |-> existing.status,
                  age |-> IF age > 10 * 60 * 1000 THEN "older"
                          ELSE IF age = 10 * 60 * 1000 THEN "atTtl"
                          ELSE "younger"]

StatusOf(table, id) ==
    LET m == Matching(table, id)
    IN  IF m = {} THEN "absent" ELSE (CHOOSE r \in m : TRUE).status

\* The stages a dispatch has run to successful completion.
DispatchComplete(stages, cfg, type) == StagesOf(cfg, type) \subseteq stages

\* -------------------------------------------------------------------- state
SampleEvent(type, user, from, to) ==
    [type |-> type, app_user_id |-> user, transferred_from |-> from,
     transferred_to |-> to, event_timestamp_ms |-> 1]

SampleEvents ==
    {SampleEvent("INITIAL_PURCHASE", "u1", <<>>, <<>>),
     SampleEvent("INITIAL_PURCHASE", NoUser, <<>>, <<>>),
     SampleEvent("TRANSFER", "u1", <<"u1">>, <<"u2">>),
     SampleEvent("VIRTUAL_CURRENCY_TRANSACTION", "u1", <<>>, <<>>),
     SampleEvent("TEST", "u1", <<>>, <<>>),
     SampleEvent("FUTURE_EVENT", "u1", <<>>, <<>>)}

NoHooks == [onEvent |-> FALSE, events |-> {}]
Configs == [onEvent : BOOLEAN, events : {{}, SampleEventTypes}]

\* Documents written before this version of the component: no status field, or
\* the processed_pending status the schema still admits.
LegacyLedgers ==
    {{[_id |-> 0, revenuecatEventId |-> id, eventType |-> "TEST",
       eventTimestampMs |-> 1, processedAt |-> 0, status |-> st]} :
        id \in EventIds, st \in {NoStatus, "processed_pending"}}

\* No call made yet.
NoCall == [op |-> "", user |-> NoUser, args |-> <<>>, upstream |-> "",
           requests |-> <<>>, threw |-> FALSE, returned |-> <<>>,
           deleted |-> 0]

\* A deployment whose cache tables are empty.
EmptyCache ==
    /\ subscribers = {}
    /\ entitlements = {}
    /\ virtual_currency_balances = {}
    /\ lastCall = NoCall

\* The deployments explored: every sample event without hooks, the
\* informational event under every hook configuration, and a ledger that
\* already holds a legacy document.
Init ==
    /\ now = 0
    /\ \/ /\ webhook_events = {}
          /\ payload \in [EventIds -> SampleEvents]
          /\ config = NoHooks
       \/ /\ webhook_events = {}
          /\ payload \in [EventIds -> {SampleEvent("TEST", "u1", <<>>, <<>>)}]
          /\ config \in Configs \ {NoHooks}
       \/ /\ webhook_events \in LegacyLedgers
          /\ payload \in [EventIds -> {SampleEvent("TEST", "u1", <<>>, <<>>)}]
          /\ config = NoHooks
    /\ deliveries = EmptyBag
    /\ completed = [e \in EventIds \cup {EmptyId} |-> 0]
    /\ reclaimed = [e \in EventIds \cup {EmptyId} |-> 0]
    /\ EmptyCache

\* ------------------------------------------------------------------ actions
\* The dispatches completed and the locks taken over are counted up to
\* MaxTicks, which the bounded clock does not let them exceed.
CountUp(n) == IF n < MaxTicks THEN n + 1 ELSE n

Running == BagToSet(deliveries)
Put(bag, d) == bag (+) SetToBag({d})
Take(bag, d) == bag (-) SetToBag({d})

\* Invocation d of the handler takes a step that leaves it as d2.
Becomes(d, d2) == deliveries' = Put(Take(deliveries, d), d2)

\* The bodies posted for event e: text that is not JSON, a payload without
\* event, events with an id, a type or a timestamp of the wrong type, and the
\* event as the sender delivers it.
Bodies(e) ==
    LET id == Str(e)
        type == Str(payload[e].type)
        ts == Num(payload[e].event_timestamp_ms)
    IN  {Body(FALSE, FALSE, Undefined, Undefined, Undefined),
         Body(TRUE, FALSE, Undefined, Undefined, Undefined),
         Body(TRUE, TRUE, Num(7), type, ts),
         Body(TRUE, TRUE, id, Undefined, ts),
         Body(TRUE, TRUE, id, type, Str("1")),
         Body(TRUE, TRUE, id, type, ts)}

\* A request for event e: the deployment's webhook auth key, the
\* Authorization header and the body posted.
Request(authKey, authHeader, body) ==
    [authKey |-> authKey, authHeader |-> authHeader, body |-> body]

\* Every request posted for event e, to a deployment whose webhook auth key is
\* set or not, with or without the credential.
AnyRequests(e) ==
    [authKey : {NoKey, "secret"},
     authHeader : {NoHeader, Bearer("wrong"), Bearer("secret")},
     body : Bodies(e)]

\* The requests the sender (or anyone else) posts for event e: one per path of
\* steps 1-3.
Requests(e) ==
    LET valid == Body(TRUE, TRUE, Str(e), Str(payload[e].type),
                      Num(payload[e].event_timestamp_ms))
    IN  {Request(NoKey, Bearer("secret"), valid),
         Request("secret", NoHeader, valid),
         Request("secret", Bearer("wrong"), valid),
         Request("secret", Bearer("secret"),
                 Body(FALSE, FALSE, Undefined, Undefined, Undefined)),
         Request("secret", Bearer("secret"),
                 Body(TRUE, FALSE, Undefined, Undefined, Undefined)),
         Request("secret", Bearer("secret"), valid)}

\* An invocation after steps 1-3 on a request delivering event e.
Received(e, req) ==
    LET resp == Ingress(req.authKey, req.authHeader, req.body)
    IN  [pc |-> IF resp = NoResponse THEN "check" ELSE "done",
         event |-> IF resp = NoResponse THEN req.body.id.str ELSE NoEvent,
         lockState |-> "none", response |-> resp, effects |-> <<>>,
         done |-> {}, logged |-> ErrorLog(resp), seen |-> NotChecked]

\* Request req for event e is posted: a new invocation runs steps 1-3.  When
\* NumHandlers invocations are kept, an answered one is forgotten.
Posted(e, req) ==
    /\ \/ /\ BagCardinality(deliveries) < NumHandlers
          /\ deliveries' = Put(deliveries, Received(e, req))
       \/ /\ BagCardinality(deliveries) >= NumHandlers
          /\ \E d \in Running :
               /\ d.pc = "done"
               /\ Becomes(d, Received(e, req))
    /\ UNCHANGED <<now, webhook_events, payload, config, completed, reclaimed>>
    /\ UNCHANGED cacheVars

\* The sender delivers an event.
Deliver == \E e \in DOMAIN payload : \E req \in Requests(e) : Posted(e, req)

\* Anyone posts any request.
DeliverAny == \E e \in DOMAIN payload : \E req \in AnyRequests(e) : Posted(e, req)

\* Step 4: ctx.runMutation(checkAndRecordEvent) and the routing on its result.
CheckAndRecord ==
    /\ \E d \in Running :
         /\ d.pc = "check"
         /\ LET e == d.event
                ev == payload[e]
            IN  \/ \* the mutation throws: 500, nothing written
                   /\ Becomes(d, [d EXCEPT !.pc = "done",
                                           !.response = RespCheckFailed,
                                           !.logged = ErrorLog(RespCheckFailed)])
                   /\ UNCHANGED <<webhook_events, reclaimed>>
                \/ /\ ~UniqueThrows(webhook_events, e)
                   /\ LET r == checkAndRecordEvent(webhook_events, e, ev.type,
                                                   ev.event_timestamp_ms, now)
                          route == LockRoute(r.result)
                          found == Seen(webhook_events, e, now)
                      IN  /\ webhook_events' = r.table
                          /\ Becomes(d, [d EXCEPT !.lockState = r.result,
                                                  !.pc = route.pc,
                                                  !.response = route.response,
                                                  !.seen = found])
                          /\ reclaimed' =
                               [reclaimed EXCEPT ![e] =
                                   IF /\ found.status = "processing"
                                      /\ found.age = "older"
                                      /\ r.result = "acquired"
                                   THEN CountUp(@) ELSE @]
    /\ UNCHANGED <<now, payload, config, completed>>
    /\ UNCHANGED cacheVars

\* A dispatch stage of invocation d ends, having made the side effects made
\* and having thrown or not.
StageEnds(d, stage, threw, made) ==
    LET e == d.event
        type == payload[e].type
        stages == IF threw THEN d.done ELSE d.done \cup {stage}
    IN  /\ Becomes(d, [d EXCEPT !.effects = @ \o made,
                                !.done = stages,
                                !.pc = AfterStage(stage, threw, config, type)])
        /\ completed' =
             [completed EXCEPT ![e] =
                 IF /\ DispatchComplete(stages, config, type)
                    /\ ~DispatchComplete(d.done, config, type)
                 THEN CountUp(@) ELSE @]
        /\ UNCHANGED <<now, webhook_events, payload, config, reclaimed>>
        /\ UNCHANGED cacheVars

\* Step 5: await processEvent(ctx, component, event, config)
ProcessEvent ==
    \E d \in Running :
      /\ d.pc = "processEvent"
      /\ \/ \E unset \in {<<FALSE, TRUE>>, <<TRUE, FALSE>>} :
              LET r == processEvent(payload[d.event], unset[1], unset[2],
                                    [u \in Users |-> "ok"])
              IN  StageEnds(d, "processEvent", r.threw, r.effects)
         \/ \E upstream \in [Users -> UpstreamAnswers] :
              LET r == processEvent(payload[d.event], TRUE, TRUE, upstream)
              IN  StageEnds(d, "processEvent", r.threw, r.effects)

\* Step 5: await config.onEvent(ctx, event)
OnEvent ==
    \E d \in Running, threw \in BOOLEAN :
      /\ d.pc = "onEvent"
      /\ StageEnds(d, "onEvent", threw,
                   <<<<"onEvent", payload[d.event].app_user_id>>>>)

\* Step 5: await customHandler(ctx, event)
CustomHandler ==
    \E d \in Running, threw \in BOOLEAN :
      /\ d.pc = "customHandler"
      /\ StageEnds(d, "customHandler", threw,
                   <<<<"customHandler", payload[d.event].app_user_id>>>>)

\* An invocation that has answered: the locals of its dispatch are gone.
Answered(d, resp, messages) ==
    [d EXCEPT !.pc = "done", !.response = resp, !.logged = messages,
              !.effects = <<>>, !.done = {}, !.seen = NotChecked]

\* Step 6 with the failure of markEventProcessed falling into the catch block
\* that releases the lock.
MarkProcessedReleases ==
    /\ \E d \in Running :
         /\ d.pc = "mark"
         /\ \/ /\ ~UniqueThrows(webhook_events, d.event)
               /\ webhook_events' = unreserveEvent(webhook_events, d.event)
               /\ Becomes(d, Answered(d, RespFinalizeFailed,
                                      ErrorLog(RespFinalizeFailed)))
            \/ /\ ~UniqueThrows(webhook_events, d.event)
               /\ webhook_events' =
                    markEventProcessed(webhook_events, d.event, now)
               /\ Becomes(d, Answered(d, RespReceived, {}))
    /\ UNCHANGED <<now, payload, config, completed, reclaimed>>
    /\ UNCHANGED cacheVars

\* Step 6: ctx.runMutation(markEventProcessed), then the 200 response.
MarkProcessed ==
    /\ \E d \in Running :
         /\ d.pc = "mark"
         /\ \/ \* the mutation throws: 500, the lock is not released
               /\ Becomes(d, Answered(d, RespFinalizeFailed,
                                      ErrorLog(RespFinalizeFailed)))
               /\ UNCHANGED webhook_events
            \/ /\ ~UniqueThrows(webhook_events, d.event)
               /\ webhook_events' =
                    markEventProcessed(webhook_events, d.event, now)
               /\ Becomes(d, Answered(d, RespReceived, {}))
    /\ UNCHANGED <<now, payload, config, completed, reclaimed>>
    /\ UNCHANGED cacheVars

\* The catch block: ctx.runMutation(unreserveEvent), then the 500 response.
Unreserve ==
    /\ \E d \in Running :
         /\ d.pc = "unreserve"
         /\ \/ \* the mutation throws: logged, the lock stays
               /\ Becomes(d, Answered(d, RespProcessingError,
                                      {ReleaseFailedLog}
                                      \cup ErrorLog(RespProcessingError)))
               /\ UNCHANGED webhook_events
            \/ /\ ~UniqueThrows(webhook_events, d.event)
               /\ webhook_events' = unreserveEvent(webhook_events, d.event)
               /\ Becomes(d, Answered(d, RespProcessingError,
                                      ErrorLog(RespProcessingError)))
    /\ UNCHANGED <<now, payload, config, completed, reclaimed>>
    /\ UNCHANGED cacheVars

\* Time passes.
Advance ==
    /\ now < MaxTicks * Tick
    /\ now' = now + Tick
    /\ UNCHANGED <<webhook_events, payload, config, deliveries, completed,
                   reclaimed>>
    /\ UNCHANGED cacheVars

Next ==
    \/ Deliver
    \/ CheckAndRecord
    \/ ProcessEvent
    \/ OnEvent
    \/ CustomHandler
    \/ MarkProcessed
    \/ Unreserve
    \/ Advance

Spec == Init /\ [][Next]_vars

\* The webhook endpoint under every request, well-formed or not: a deployment
\* without hooks whose sender delivers an informational or an entitlement
\* event under an ordinary id, or an informational event under the empty
\* string.
IngressInit ==
    /\ now = 0
    /\ webhook_events = {}
    /\ payload \in [{"evt_1"} -> {SampleEvent("TEST", "u1", <<>>, <<>>),
                                  SampleEvent("INITIAL_PURCHASE", "u1",
                                              <<>>, <<>>)}]
                 \cup [{EmptyId} -> {SampleEvent("TEST", "u1", <<>>, <<>>)}]
    /\ config = NoHooks
    /\ deliveries = EmptyBag
    /\ completed = [e \in EventIds \cup {EmptyId} |-> 0]
    /\ reclaimed = [e \in EventIds \cup {EmptyId} |-> 0]
    /\ EmptyCache

IngressNext ==
    \/ DeliverAny
    \/ CheckAndRecord
    \/ ProcessEvent
    \/ MarkProcessed
    \/ Unreserve

IngressSpec == IngressInit /\ [][IngressNext]_vars

\* The webhook endpoint of a deployment without hooks whose sender delivers an
\* entitlement-affecting event of any of the types, with or without
\* app_user_id.
EntitlementEvents ==
    {SampleEvent(type, user, <<>>, <<>>) :
        type \in EntitlementEventTypes, user \in {"u1", NoUser}}

EntitlementInit ==
    /\ now = 0
    /\ webhook_events = {}
    /\ payload \in [EventIds -> EntitlementEvents]
    /\ config = NoHooks
    /\ deliveries = EmptyBag
    /\ completed = [e \in EventIds \cup {EmptyId} |-> 0]
    /\ reclaimed = [e \in EventIds \cup {EmptyId} |-> 0]
    /\ EmptyCache

EntitlementNext ==
    \/ Deliver
    \/ CheckAndRecord
    \/ ProcessEvent
    \/ MarkProcessed
    \/ Unreserve

EntitlementSpec == EntitlementInit /\ [][EntitlementNext]_vars

\* The webhook endpoint of a deployment, under every hook configuration, whose
\* sender delivers an informational event of any of the types or an event of
\* a type the switch does not know.
NoSyncEvents ==
    {SampleEvent(type, "u1", <<>>, <<>>) :
        type \in InformationalEventTypes \cup {"FUTURE_EVENT"}}

NoSyncInit ==
    /\ now = 0
    /\ webhook_events = {}
    /\ payload \in [EventIds -> NoSyncEvents]
    /\ config \in Configs
    \* a per-type hook is configured for the types that have one
    /\ config.events # {} =>
          \A e \in EventIds : payload[e].type \in config.events
    /\ deliveries = EmptyBag
    /\ completed = [e \in EventIds \cup {EmptyId} |-> 0]
    /\ reclaimed = [e \in EventIds \cup {EmptyId} |-> 0]
    /\ EmptyCache

NoSyncSpec == NoSyncInit /\ [][Next]_vars

TypeOK ==
    /\ now \in 0 .. (MaxTicks * Tick)
    /\ \A r \in webhook_events :
         r.status \in {NoStatus, "processing", "processed", "processed_pending"}
    /\ BagCardinality(deliveries) <= NumHandlers
    /\ \A d \in Running :
         /\ d.pc \in {"check", "processEvent", "onEvent", "customHandler",
                      "mark", "unreserve", "done"}
         /\ d.lockState \in {"none", "acquired", "processing", "processed"}

\* -------------------------------------------------------------- cache store
\* Date strings of the cache: a missing field, the empty string, an ISO string
\* of an instant, and a string that is no date.
NoDate == [kind |-> "undefined", ms |-> 0]
EmptyDate == [kind |-> "empty", ms |-> 0]
InvalidDate == [kind |-> "invalid", ms |-> 0]
Iso(t) == [kind |-> "iso", ms |-> t]

\* .withIndex("by_app_user_id", q => q.eq("appUserId", u)): the documents of u
ByUser(table, u) == {r \in table : r.appUserId = u}

\* _id of a document inserted for user u: an _id no document of the table has
NewRowId(table, u) ==
    <<u, CHOOSE i \in 1 .. (Cardinality(ByUser(table, u)) + 1) :
             /\ \A r \in ByUser(table, u) : r._id # <<u, i>>
             /\ \A j \in 1 .. (i - 1) : \E r \in ByUser(table, u) : r._id = <<u, j>>>>

\* for (const ent of args.entitlements) await ctx.db.insert("entitlements", ...)
RECURSIVE InsertEntitlements(_, _, _, _)
InsertEntitlements(table, u, ts, E) ==
    IF E = <<>> THEN table
    ELSE InsertEntitlements(
             table \cup {[_id |-> NewRowId(table, u), appUserId |-> u,
                          entitlementId |-> Head(E).entitlementId,
                          isActive |-> Head(E).isActive,
                          expiresDate |-> Head(E).expiresDate,
                          gracePeriodExpiresDate |-> NoDate,
                          lastSyncedAt |-> ts]},
             u, ts, Tail(E))

\* The upsert of the subscriber document of u.
UpsertSubscriber(subs, u, ts, raw) ==
    IF ByUser(subs, u) # {}
    THEN LET existingSub == CHOOSE r \in ByUser(subs, u) : TRUE
         IN  (subs \ {existingSub}) \cup
             {[existingSub EXCEPT !.lastSyncedAt = ts, !.rawSubscriber = raw]}
    ELSE subs \cup {[_id |-> NewRowId(subs, u), appUserId |-> u,
                     lastSyncedAt |-> ts, rawSubscriber |-> raw]}

\* syncSubscriberAndEntitlements keeping the rows it finds
syncSubscriberAndEntitlementsKeepRows(subs, ents, u, ts, raw, E) ==
    [subscribers |-> UpsertSubscriber(subs, u, ts, raw),
     entitlements |-> InsertEntitlements(ents, u, ts, E)]

\* syncSubscriberAndEntitlements collecting the rows to delete without the
\* by_app_user_id index
syncSubscriberAndEntitlementsAllUsers(subs, ents, u, ts, raw, E) ==
    [subscribers |-> UpsertSubscriber(subs, u, ts, raw),
     entitlements |-> InsertEntitlements({}, u, ts, E)]

\* The syncSubscriberAndEntitlements mutation: the tables it leaves.
syncSubscriberAndEntitlements(subs, ents, u, ts, raw, E) ==
    [subscribers |-> UpsertSubscriber(subs, u, ts, raw),
     entitlements |-> InsertEntitlements(ents \ ByUser(ents, u), u, ts, E)]

\* clearEntitlements deleting nothing
clearEntitlementsKeepRows(ents, u) == ents

\* The clearEntitlements mutation: the entitlements table it leaves.
clearEntitlements(ents, u) == ents \ ByUser(ents, u)

\* The rows of a table without their _id: what a caller can compare.
Fields(row) == [f \in (DOMAIN row) \ {"_id"} |-> row[f]]

\* --------------------------------------------------------------- sync engine
\* An entry of the customer's active_entitlements: the opaque entitlement id
\* and expires_at in milliseconds (0 for null).
Item(id, expiresAt) == [entitlement_id |-> id, expires_at |-> expiresAt]

\* A page of a paginated listing: whether its request succeeded, and its items.
Page(ok, items) == [ok |-> ok, items |-> items]

\* Upstream's answer to GET customer: the status, the object field of the body,
\* the first page of active_entitlements and the pages its cursor leads to.
Customer(status, object, items, pages) ==
    [status |-> status, object |-> object, items |-> items, pages |-> pages]

\* lookupMap.get(id) ?? id, the map being a set of <<id, lookup_key>> pairs
Resolve(map, id) ==
    IF \E m \in map : m[1] = id
    THEN (CHOOSE m \in map : m[1] = id)[2]
    ELSE id

\* new Date(item.expires_at).toISOString(), undefined when expires_at is falsy
ToIsoString(expiresAt) == IF expiresAt = 0 THEN NoDate ELSE Iso(expiresAt)

\* parseActiveEntitlements deriving isActive from the expiry of the item
parseActiveEntitlementsByExpiry(items, map) ==
    [i \in 1 .. Len(items) |->
        [entitlementId |-> Resolve(map, items[i].entitlement_id),
         isActive |-> items[i].expires_at # 0,
         expiresDate |-> ToIsoString(items[i].expires_at)]]

\* parseActiveEntitlements
RECURSIVE parseActiveEntitlements(_, _)
parseActiveEntitlements(items, map) ==
    IF items = <<>> THEN <<>>
    ELSE <<[entitlementId |-> Resolve(map, Head(items).entitlement_id),
            isActive |-> TRUE,
            expiresDate |-> ToIsoString(Head(items).expires_at)]>>
         \o parseActiveEntitlements(Tail(items), map)

\* fetchEntitlementLookupMap: the requests made and the map built from the
\* pages of the definitions listing, up to the first page that fails.
RECURSIVE fetchEntitlementLookupMap(_)
fetchEntitlementLookupMap(pages) ==
    IF pages = <<>> THEN [requests |-> <<>>, map |-> {}]
    ELSE IF ~Head(pages).ok
         THEN [requests |-> <<<<"GET entitlements", NoUser>>>>, map |-> {}]
         ELSE LET rest == fetchEntitlementLookupMap(Tail(pages))
                  \* if (item.id && item.lookup_key) map.set(...)
                  here == {<<Head(pages).items[i].id,
                             Head(pages).items[i].lookup_key>> :
                              i \in {j \in 1 .. Len(Head(pages).items) :
                                        /\ Head(pages).items[j].id # ""
                                        /\ Head(pages).items[j].lookup_key # ""}}
              IN  [requests |-> <<<<"GET entitlements", NoUser>>>> \o rest.requests,
                   \* map.set: a later page overrides an earlier one
                   map |-> {m \in here : \A n \in rest.map : n[1] # m[1]}
                           \cup rest.map]

\* The while (nextPage) loop: the requests made and the entitlements of the
\* pages fetched, up to the first page that fails.
RECURSIVE FollowPages(_, _, _)
FollowPages(pages, map, u) ==
    IF pages = <<>> THEN [requests |-> <<>>, entitlements |-> <<>>]
    ELSE IF ~Head(pages).ok
         THEN [requests |-> <<<<"GET page", u>>>>, entitlements |-> <<>>]
         ELSE LET rest == FollowPages(Tail(pages), map, u)
              IN  [requests |-> <<<<"GET page", u>>>> \o rest.requests,
                   entitlements |->
                       parseActiveEntitlements(Head(pages).items, map)
                       \o rest.entitlements]

\* The lookupMap parameter of fetchCustomerAndEntitlements and fullResync:
\* omitted, or a map the caller fetched.
NoLookupMap == [given |-> FALSE, map |-> {}]
LookupMap(map) == [given |-> TRUE, map |-> map]

\* fetchCustomerAndEntitlements for user u when upstream answers GET customer
\* with customer and lists the entitlement definitions in pages definitions:
\* the requests made, whether it threw, whether it returned null, and the
\* entitlements it returned.
fetchCustomerAndEntitlements(u, customer, lookupMap, definitions) ==
    LET get == <<<<"GET customer", u>>>>
    IN  IF customer.status = "404"
        THEN [threw |-> FALSE, null |-> TRUE, requests |-> get,
              entitlements |-> <<>>]
        ELSE IF customer.status # "ok" \/ customer.object # "customer"
        THEN [threw |-> TRUE, null |-> FALSE, requests |-> get,
              entitlements |-> <<>>]
        ELSE LET fetched == IF lookupMap.given
                            THEN [requests |-> <<>>, map |-> lookupMap.map]
                            ELSE fetchEntitlementLookupMap(definitions)
                 more == FollowPages(customer.pages, fetched.map, u)
             IN  [threw |-> FALSE, null |-> FALSE,
                  requests |-> get \o fetched.requests \o more.requests,
                  entitlements |->
                      parseActiveEntitlements(customer.items, fetched.map)
                      \o more.entitlements]

\* What a resync does with the result of fetchCustomerAndEntitlements at time
\* t: the tables it leaves (the common part of syncSubscriber and fullResync).
WriteFetched(result, u, customer, subs, ents, t) ==
    IF result.threw
    THEN [subscribers |-> subs, entitlements |-> ents]
    ELSE IF result.null
    THEN [subscribers |-> subs, entitlements |-> clearEntitlements(ents, u)]
    ELSE syncSubscriberAndEntitlements(subs, ents, u, t, customer,
                                       result.entitlements)

\* syncSubscriber as it would be if the getters returned an unset value
\* instead of throwing.
syncSubscriberUnchecked(apiKey, projectId, u, customer, definitions, subs, ents, t) ==
    LET result == fetchCustomerAndEntitlements(u, customer, NoLookupMap,
                                               definitions)
        tables == WriteFetched(result, u, customer, subs, ents, t)
    IN  [threw |-> result.threw, requests |-> result.requests,
         returned |-> result.entitlements,
         subscribers |-> tables.subscribers,
         entitlements |-> tables.entitlements]

\* RevenueCatSync.syncSubscriber: the outcome of the call and the tables it
\* leaves.  The apiKey and projectId getters throw on an empty value.
syncSubscriber(apiKey, projectId, u, customer, definitions, subs, ents, t) ==
    IF apiKey = "" \/ projectId = ""
    THEN [threw |-> TRUE, requests |-> <<>>, returned |-> <<>>,
          subscribers |-> subs, entitlements |-> ents]
    ELSE LET result == fetchCustomerAndEntitlements(u, customer, NoLookupMap,
                                                    definitions)
             tables == WriteFetched(result, u, customer, subs, ents, t)
         IN  [threw |-> result.threw, requests |-> result.requests,
              returned |-> result.entitlements,
              subscribers |-> tables.subscribers,
              entitlements |-> tables.entitlements]

\* fullResync with the tables it writes: the outcome and the tables it leaves.
fullResyncTables(u, customer, lookupMap, definitions, subs, ents, t) ==
    LET result == fetchCustomerAndEntitlements(u, customer, lookupMap,
                                               definitions)
        tables == WriteFetched(result, u, customer, subs, ents, t)
    IN  [threw |-> result.threw, requests |-> result.requests,
         returned |-> <<>>,
         subscribers |-> tables.subscribers,
         entitlements |-> tables.entitlements]

\* result.entitlements.some(e => e.entitlementId === id && e.isActive)
Found(list, id) ==
    \E i \in 1 .. Len(list) : list[i].entitlementId = id /\ list[i].isActive

\* ------------------------------------------ sync engine: the inputs explored
EntitlementIds == {"premium", "pro"}

\* Upstream's answers to GET customer: not found, a server error, a body that
\* is no customer, a customer without entitlements, with one, with two on two
\* pages, and with a second page whose request fails.
UpstreamCustomers ==
    {Customer("404", "error", <<>>, <<>>),
     Customer("error", "error", <<>>, <<>>),
     Customer("ok", "list", <<>>, <<>>),
     Customer("ok", "customer", <<>>, <<>>),
     Customer("ok", "customer", <<Item("entl_a", 2 * Tick)>>, <<>>),
     Customer("ok", "customer", <<Item("entl_a", 2 * Tick)>>,
              <<Page(TRUE, <<Item("entl_b", 0)>>)>>),
     Customer("ok", "customer", <<Item("entl_a", 2 * Tick)>>,
              <<Page(FALSE, <<>>)>>)}

\* A customer whose second page lists the entitlement of the first page again.
ListedTwice ==
    {Customer("ok", "customer", <<Item("entl_a", 2 * Tick)>>,
              <<Page(TRUE, <<Item("entl_a", 2 * Tick)>>)>>)}

\* Upstream's entitlement definitions: one page, or a page whose request fails.
UpstreamDefinitions ==
    {<<Page(TRUE, <<[id |-> "entl_a", lookup_key |-> "premium"],
                    [id |-> "entl_b", lookup_key |-> "pro"]>>)>>,
     <<Page(FALSE, <<>>)>>}

\* The API key and project id of the deployment: both set, or one unset.
Credentials == {<<"key", "proj">>, <<"", "proj">>, <<"key", "">>}

\* The customer found, with one or two entitlements, and the definitions
\* listed on one page.
FoundCustomers == {c \in UpstreamCustomers : c.status # "error" /\ c.object # "list"
                                              /\ \A i \in 1 .. Len(c.pages) : c.pages[i].ok}
ListedDefinitions == {d \in UpstreamDefinitions : \A i \in 1 .. Len(d) : d[i].ok}

\* The entitlements argument of a direct syncSubscriberAndEntitlements call.
Entitlement(id, isActive, expiresDate) ==
    [entitlementId |-> id, isActive |-> isActive, expiresDate |-> expiresDate]
EntitlementLists ==
    {<<>>,
     <<Entitlement("premium", TRUE, Iso(2 * Tick))>>,
     <<Entitlement("premium", TRUE, NoDate),
       Entitlement("pro", FALSE, Iso(Tick))>>}

\* -------------------------------------------------- sync engine: the actions
ledgerVars == <<webhook_events, payload, config, deliveries, completed,
                reclaimed>>

\* A deployment whose webhook endpoint has received nothing.
IdleLedger ==
    /\ webhook_events = {}
    /\ payload = [e \in EventIds |-> SampleEvent("TEST", "u1", <<>>, <<>>)]
    /\ config = NoHooks
    /\ deliveries = EmptyBag
    /\ completed = [e \in EventIds \cup {EmptyId} |-> 0]
    /\ reclaimed = [e \in EventIds \cup {EmptyId} |-> 0]

\* The record of a call: its arguments, the status upstream answered with, its
\* outcome, and the entitlement rows of the user it deleted.
Call(op, u, args, answer, outcome, deleted) ==
    [op |-> op, user |-> u, args |-> args, upstream |-> answer,
     requests |-> outcome.requests, threw |-> outcome.threw,
     returned |-> outcome.returned, deleted |-> deleted]

\* The entitlement rows of u that a resync with this outcome deleted.
Deleted(u, outcome) ==
    IF outcome.threw THEN 0 ELSE Cardinality(ByUser(entitlements, u))

\* A call that leaves the tables of outcome.
Resynced(op, u, args, answer, outcome) ==
    /\ subscribers' = outcome.subscribers
    /\ entitlements' = outcome.entitlements
    /\ lastCall' = Call(op, u, args, answer, outcome, Deleted(u, outcome))
    /\ UNCHANGED <<now, virtual_currency_balances>>
    /\ UNCHANGED ledgerVars

\* The host application calls RevenueCatSync.syncSubscriber; the call is
\* recorded with the API key and project id of the instance.
SyncSubscriber ==
    \E u \in Users, cred \in Credentials :
      \E customer \in IF cred = <<"key", "proj">>
                       THEN UpstreamCustomers \cup ListedTwice
                       ELSE FoundCustomers :
        \E definitions \in IF cred = <<"key", "proj">> THEN UpstreamDefinitions
                            ELSE ListedDefinitions :
          Resynced("syncSubscriber", u, <<cred[1], cred[2]>>, customer.status,
                   syncSubscriber(cred[1], cred[2], u, customer, definitions,
                                  subscribers, entitlements, now))

\* One iteration of the loop of RevenueCatSync.pollForEntitlement: a
\* syncSubscriber call, and the test of its result for the entitlement.
PollIteration ==
    \E u \in Users, id \in EntitlementIds, customer \in FoundCustomers,
       definitions \in ListedDefinitions :
        LET out == syncSubscriber("key", "proj", u, customer, definitions,
                                  subscribers, entitlements, now)
        IN  Resynced("pollForEntitlement", u, <<id>>, customer.status,
                     [out EXCEPT !.returned =
                          IF out.threw THEN <<>>
                          ELSE <<Found(out.returned, id)>>])

\* The webhook dispatch of an event of user u calls fullResync, with the lookup
\* map the TRANSFER branch fetched or without one.
FullResync ==
    \E u \in Users, customer \in UpstreamCustomers \cup ListedTwice,
       definitions \in UpstreamDefinitions,
       lookupMap \in {NoLookupMap,
                      LookupMap({<<"entl_a", "premium">>, <<"entl_b", "pro">>})} :
        (lookupMap.given => definitions \in ListedDefinitions) /\
            Resynced("fullResync", u, <<>>, customer.status,
                     fullResyncTables(u, customer, lookupMap, definitions,
                                      subscribers, entitlements, now))

\* The syncSubscriberAndEntitlements mutation is called with a stamp, a
\* snapshot and a list of entitlements.
SyncSubscriberAndEntitlements ==
    \E u \in Users, ts \in {now, 7}, E \in EntitlementLists :
        LET tables == syncSubscriberAndEntitlements(subscribers, entitlements,
                                                    u, ts, "snapshot", E)
        IN  Resynced("syncSubscriberAndEntitlements", u,
                     <<ts, "snapshot", E>>, "",
                     [threw |-> FALSE, requests |-> <<>>, returned |-> <<>>,
                      subscribers |-> tables.subscribers,
                      entitlements |-> tables.entitlements])

SyncInit ==
    /\ now = 0
    /\ IdleLedger
    /\ EmptyCache

SyncNext ==
    \/ SyncSubscriber
    \/ PollIteration
    \/ FullResync
    \/ SyncSubscriberAndEntitlements

SyncSpec == SyncInit /\ [][SyncNext]_vars

\* The sync paths alone: syncSubscriber calls, poll iterations and webhook
\* resyncs on a deployment whose cache starts empty.
SyncPathsNext ==
    \/ SyncSubscriber
    \/ PollIteration
    \/ FullResync

SyncPathsSpec == SyncInit /\ [][SyncPathsNext]_vars

\* ------------------------------------------------------------------- queries
\* new Date(date).getTime() > t: false when the string is no date (NaN)
LaterThan(date, t) == date.kind = "iso" /\ date.ms > t

\* !date: the field is missing or the empty string
Falsy(date) == date.kind \in {"undefined", "empty"}

\* computeIsActive without the grace period
computeIsActiveNoGrace(ent, t) ==
    IF Falsy(ent.expiresDate) THEN ent.isActive
    ELSE LaterThan(ent.expiresDate, t)

\* computeIsActive at time t
computeIsActive(ent, t) ==
    IF Falsy(ent.expiresDate) THEN ent.isActive
    ELSE IF LaterThan(ent.expiresDate, t) THEN TRUE
    ELSE IF ~Falsy(ent.gracePeriodExpiresDate)
            /\ LaterThan(ent.gracePeriodExpiresDate, t) THEN TRUE
    ELSE FALSE

\* The getActiveEntitlements query at time t: the rows it returns, without
\* their _id.
getActiveEntitlements(ents, u, t) ==
    LET indexed == {r \in ents : r.appUserId = u /\ r.isActive = TRUE}
    IN  {Fields(r) : r \in {x \in indexed : computeIsActive(x, t)}}

\* The hasActiveEntitlement query at time t: whether it threw (.unique() on
\* more than one row) and what it returned.
hasActiveEntitlement(ents, u, id, t) ==
    LET found == {r \in ents : r.appUserId = u /\ r.entitlementId = id}
    IN  IF Cardinality(found) > 1 THEN [threw |-> TRUE, returned |-> <<>>]
        ELSE IF found = {} THEN [threw |-> FALSE, returned |-> <<FALSE>>]
        ELSE [threw |-> FALSE,
              returned |-> <<computeIsActive(CHOOSE r \in found : TRUE, t)>>]

\* The date strings of the rows explored: none, the empty string, no date, and
\* three instants, one of them on a tick of the clock.
HalfTick == Tick \div 2
Dates == {NoDate, EmptyDate, InvalidDate, Iso(HalfTick), Iso(Tick),
          Iso(Tick + HalfTick)}

\* An entitlements table holding one row of user u1, of any content the schema
\* admits.
StoredRows ==
    {{[_id |-> <<"u1", 1>>, appUserId |-> "u1", entitlementId |-> "premium",
       isActive |-> a, expiresDate |-> e, gracePeriodExpiresDate |-> g,
       lastSyncedAt |-> 0]} :
        a \in BOOLEAN, e \in Dates, g \in Dates}

\* A query leaves the tables alone.
Queried(op, u, args, result) ==
    /\ lastCall' = Call(op, u, args, "",
                        [requests |-> <<>>, threw |-> result.threw,
                         returned |-> result.returned], 0)
    /\ UNCHANGED <<now, subscribers, entitlements, virtual_currency_balances>>
    /\ UNCHANGED ledgerVars

HasActiveEntitlement ==
    \E u \in Users, id \in EntitlementIds :
        Queried("hasActiveEntitlement", u, <<id>>,
                hasActiveEntitlement(entitlements, u, id, now))

GetActiveEntitlements ==
    \E u \in Users :
        Queried("getActiveEntitlements", u, <<>>,
                [threw |-> FALSE,
                 returned |-> <<getActiveEntitlements(entitlements, u, now)>>])

QueryInit ==
    /\ now = 0
    /\ IdleLedger
    /\ subscribers = {}
    /\ entitlements \in StoredRows
    /\ virtual_currency_balances = {}
    /\ lastCall = NoCall

QueryNext ==
    \/ HasActiveEntitlement
    \/ GetActiveEntitlements
    \/ Advance

QuerySpec == QueryInit /\ [][QueryNext]_vars

\* ---------------------------------------------------------- virtual currency
\* A currency code is a sequence of characters and chunks of characters; " " is
\* a white-space character.
Space == " "
Code(chunk) == <<chunk>>

\* String.prototype.trim: without the white space at both ends
RECURSIVE trim(_)
trim(code) ==
    IF code = <<>> THEN code
    ELSE IF Head(code) = Space THEN trim(Tail(code))
    ELSE IF code[Len(code)] = Space THEN trim(SubSeq(code, 1, Len(code) - 1))
    ELSE code

\* Numbers that are not finite
NaN == [typeof |-> "number", str |-> "NaN", num |-> 0]
Infinity == [typeof |-> "number", str |-> "Infinity", num |-> 0]

\* typeof amount === "number" && Number.isFinite(amount)
IsFiniteNumber(amount) == amount.typeof = "number" /\ amount.str = ""

\* -amount, kept as it is
KeepSign(amount) == amount

\* -amount
Negate(amount) == Num(0 - amount.num)

\* The for loop of validateSpendAdjustments from entry i on: whether it threw,
\* and the normalized object, a function of its keys.
RECURSIVE NormalizeEntries(_, _, _)
NormalizeEntries(entries, i, normalized) ==
    IF i > Len(entries) THEN [threw |-> FALSE, adjustments |-> normalized]
    ELSE LET code == trim(entries[i][1])
             amount == entries[i][2]
         IN  IF code = <<>> THEN [threw |-> TRUE, adjustments |-> << >>]
             ELSE IF ~IsFiniteNumber(amount)
             THEN [threw |-> TRUE, adjustments |-> << >>]
             ELSE IF amount.num <= 0
             THEN [threw |-> TRUE, adjustments |-> << >>]
             ELSE NormalizeEntries(entries, i + 1,
                                   (code :> Negate(amount)) @@ normalized)

\* validateSpendAdjustments that accepts an object without entries
validateSpendAdjustmentsAllowEmpty(adjustments) ==
    NormalizeEntries(adjustments, 1, << >>)

\* validateSpendAdjustments on Object.entries(adjustments ?? {}), a sequence of
\* <<rawCode, amount>> with different raw codes
validateSpendAdjustments(adjustments) ==
    IF Len(adjustments) = 0 THEN [threw |-> TRUE, adjustments |-> << >>]
    ELSE NormalizeEntries(adjustments, 1, << >>)

\* The body of an upstream answer that lists balances: result.items is no array
\* (items = NoItems) or an array of items.
NoItems == "<no array>"
BalanceItem(code, balance) == [currency_code |-> code, balance |-> balance]

\* parseVirtualCurrencyBalances on result.items
RECURSIVE parseVirtualCurrencyBalances(_)
parseVirtualCurrencyBalances(items) ==
    IF items = NoItems \/ items = <<>> THEN <<>>
    ELSE LET item == Head(items)
             rest == parseVirtualCurrencyBalances(Tail(items))
         IN  IF item.currency_code.typeof = "string"
                /\ IsFiniteNumber(item.balance)
             THEN <<[currencyCode |-> item.currency_code.str,
                     balance |-> item.balance.num]>> \o rest
             ELSE rest

\* The insert loop of the syncVirtualCurrencyBalances mutation
RECURSIVE InsertBalances(_, _, _, _)
InsertBalances(table, u, t, balances) ==
    IF balances = <<>> THEN table
    ELSE InsertBalances(
             table \cup {[_id |-> NewRowId(table, u), appUserId |-> u,
                          currencyCode |-> Head(balances).currencyCode,
                          balance |-> Head(balances).balance,
                          lastSyncedAt |-> t]},
             u, t, Tail(balances))

\* The syncVirtualCurrencyBalances mutation: the table it leaves
syncVirtualCurrencyBalancesMutation(table, u, t, balances) ==
    InsertBalances(table \ ByUser(table, u), u, t, balances)

\* An upstream answer to a balances or transactions request
Answer(ok, items) == [ok |-> ok, items |-> items]

\* RevenueCatSync.syncVirtualCurrencyBalances: the outcome of the call and the
\* table it leaves
syncVirtualCurrencyBalances(apiKey, projectId, u, answer, table, t) ==
    IF apiKey = "" \/ projectId = ""
    THEN [threw |-> TRUE, requests |-> <<>>, returned |-> <<>>,
          virtual_currency_balances |-> table]
    ELSE LET get == <<<<"GET virtual_currencies", u>>>>
         IN  IF ~answer.ok
             THEN [threw |-> TRUE, requests |-> get, returned |-> <<>>,
                   virtual_currency_balances |-> table]
             ELSE LET balances == parseVirtualCurrencyBalances(answer.items)
                  IN  [threw |-> FALSE, requests |-> get,
                       returned |-> balances,
                       virtual_currency_balances |->
                           syncVirtualCurrencyBalancesMutation(table, u, t,
                                                               balances)]

\* The transaction request of spendVirtualCurrency
Transaction(u, idempotencyKey, adjustments) ==
    [method |-> "POST", path |-> "virtual_currencies/transactions",
     customer |-> u, idempotencyKey |-> idempotencyKey,
     adjustments |-> adjustments]

\* spendVirtualCurrency that fetches the balances again after the transaction
spendVirtualCurrencyRefetch(apiKey, projectId, u, adjustments, key, answer, table, t) ==
    LET apiAdjustments == validateSpendAdjustments(adjustments)
        post == <<Transaction(u, key, apiAdjustments.adjustments)>>
        after == syncVirtualCurrencyBalances(apiKey, projectId, u, answer,
                                             table, t)
    IN  IF apiAdjustments.threw \/ apiKey = "" \/ projectId = ""
        THEN [threw |-> TRUE, requests |-> <<>>, returned |-> <<>>,
              virtual_currency_balances |-> table]
        ELSE [after EXCEPT !.requests = post \o @]

\* RevenueCatSync.spendVirtualCurrency: the outcome of the call and the table
\* it leaves.  An empty idempotencyKey (key) sends no Idempotency-Key header.
spendVirtualCurrency(apiKey, projectId, u, adjustments, key, answer, table, t) ==
    LET apiAdjustments == validateSpendAdjustments(adjustments)
    IN  IF apiAdjustments.threw \/ apiKey = "" \/ projectId = ""
        THEN [threw |-> TRUE, requests |-> <<>>, returned |-> <<>>,
              virtual_currency_balances |-> table]
        ELSE LET post == <<Transaction(u, key, apiAdjustments.adjustments)>>
             IN  IF ~answer.ok
                 THEN [threw |-> TRUE, requests |-> post, returned |-> <<>>,
                       virtual_currency_balances |-> table]
                 ELSE LET balances ==
                              parseVirtualCurrencyBalances(answer.items)
                      IN  [threw |-> FALSE, requests |-> post,
                           returned |-> balances,
                           virtual_currency_balances |->
                               syncVirtualCurrencyBalancesMutation(
                                   table, u, t, balances)]

\* The raw currency codes and the amounts a caller passes
RawCodes == {Code("GLD"), Code("SLV"), <<Space>> \o Code("GLD"), <<Space>>,
             <<>>}
Amounts == {Num(20), Num(10), Num(0), Num(0 - 5), NaN, Infinity, Str("10")}

\* The adjustments explored: no entry, one entry of any code and amount, and
\* {GLD: 20} followed by an entry of any other code with a good amount, with
\* zero or with NaN.
SpendAdjustments ==
    {<<>>}
    \cup {<<<<c, a>>>> : c \in RawCodes, a \in Amounts}
    \cup {<<<<Code("GLD"), Num(20)>>, <<c, a>>>> :
              c \in RawCodes \ {Code("GLD")}, a \in {Num(10), Num(0), NaN}}

\* The adjustments explored on an instance without credentials
FewAdjustments == {<<>>, <<<<Code("GLD"), Num(20)>>>>}

IdempotencyKeys == {"", "idem_1"}

\* The upstream answers explored: an error, a body without an items array, one
\* balance, and a balance followed by an item whose balance is a string.
UpstreamBalances ==
    {Answer(FALSE, NoItems),
     Answer(TRUE, NoItems),
     Answer(TRUE, <<BalanceItem(Str("GLD"), Num(80))>>),
     Answer(TRUE, <<BalanceItem(Str("GLD"), Num(70)),
                    BalanceItem(Str("SLV"), Str("5"))>>)}

\* The answers explored to a transaction: an error and the balances left
SpentBalances == {a \in UpstreamBalances : ~a.ok \/ a.items # NoItems}

\* A virtual-currency call that leaves the balances table of outcome; the
\* call is recorded with upstream's answer after its arguments.
Spent(op, u, args, answer, outcome) ==
    /\ virtual_currency_balances' = outcome.virtual_currency_balances
    /\ lastCall' = Call(op, u, args \o <<answer>>,
                        IF answer.ok THEN "ok" ELSE "error", outcome, 0)
    /\ UNCHANGED <<now, subscribers, entitlements>>
    /\ UNCHANGED ledgerVars

\* The host application calls RevenueCatSync.syncVirtualCurrencyBalances.
SyncVirtualCurrencyBalances ==
    \E u \in Users, cred \in Credentials, answer \in UpstreamBalances :
        Spent("syncVirtualCurrencyBalances", u, <<cred>>, answer,
              syncVirtualCurrencyBalances(cred[1], cred[2], u, answer,
                                          virtual_currency_balances, now))

\* The host application calls RevenueCatSync.spendVirtualCurrency; the call is
\* recorded with the credentials of the instance.
SpendVirtualCurrency ==
    \E u \in Users, cred \in Credentials, key \in IdempotencyKeys :
      \E adjustments \in IF cred = <<"key", "proj">> THEN SpendAdjustments
                          ELSE FewAdjustments :
        \E answer \in IF cred = <<"key", "proj">> THEN SpentBalances
                      ELSE {Answer(FALSE, NoItems)} :
          Spent("spendVirtualCurrency", u, <<adjustments, key, cred>>, answer,
                spendVirtualCurrency(cred[1], cred[2], u, adjustments, key,
                                     answer, virtual_currency_balances, now))

SpendInit ==
    /\ now = 0
    /\ IdleLedger
    /\ EmptyCache

SpendNext ==
    \/ SyncVirtualCurrencyBalances
    \/ SpendVirtualCurrency

SpendSpec == SpendInit /\ [][SpendNext]_vars

\* ------------------------------------------- webhook dispatch: the cache side
\* The three cache tables
Cache(subs, ents, balances) ==
    [subscribers |-> subs, entitlements |-> ents,
     virtual_currency_balances |-> balances]

\* for (const id of userIds) await fullResync(..., id, lookupMap), on the
\* tables: the requests made, whether a resync threw, and the tables left
RECURSIVE ResyncEach(_, _, _, _, _)
ResyncEach(ids, customers, lookupMap, cache, t) ==
    IF ids = <<>> THEN [threw |-> FALSE, requests |-> <<>>, cache |-> cache]
    ELSE LET first == fullResyncTables(Head(ids), customers[Head(ids)],
                                       lookupMap, <<>>, cache.subscribers,
                                       cache.entitlements, t)
             left == [cache EXCEPT !.subscribers = first.subscribers,
                                   !.entitlements = first.entitlements]
         IN  IF first.threw
             THEN [threw |-> TRUE, requests |-> first.requests, cache |-> left]
             ELSE LET rest == ResyncEach(Tail(ids), customers, lookupMap,
                                         left, t)
                  IN  [threw |-> rest.threw,
                       requests |-> first.requests \o rest.requests,
                       cache |-> rest.cache]

\* The TRANSFER branch without the shared lookup map: every resync lists the
\* entitlement definitions itself
RECURSIVE ResyncEachListing(_, _, _, _, _)
ResyncEachListing(ids, customers, definitions, cache, t) ==
    IF ids = <<>> THEN [threw |-> FALSE, requests |-> <<>>, cache |-> cache]
    ELSE LET first == fullResyncTables(Head(ids), customers[Head(ids)],
                                       NoLookupMap, definitions,
                                       cache.subscribers, cache.entitlements, t)
             left == [cache EXCEPT !.subscribers = first.subscribers,
                                   !.entitlements = first.entitlements]
             rest == ResyncEachListing(Tail(ids), customers, definitions,
                                       left, t)
         IN  IF first.threw
             THEN [threw |-> TRUE, requests |-> first.requests, cache |-> left]
             ELSE [threw |-> rest.threw,
                   requests |-> first.requests \o rest.requests,
                   cache |-> rest.cache]

\* The TRANSFER branch that passes no lookup map to fullResync
transferNoSharedMap(ev, customers, definitions, cache, t) ==
    LET userIds == SetOrder(<<ev.app_user_id>> \o ev.transferred_from
                            \o ev.transferred_to, {})
        lookupMap == fetchEntitlementLookupMap(definitions)
        all == ResyncEachListing(userIds, customers, definitions, cache, t)
    IN  [all EXCEPT !.requests = lookupMap.requests \o @]

\* The TRANSFER branch of processEvent on the tables
transfer(ev, customers, definitions, cache, t) ==
    LET userIds == SetOrder(<<ev.app_user_id>> \o ev.transferred_from
                            \o ev.transferred_to, {})
        lookupMap == fetchEntitlementLookupMap(definitions)
        all == ResyncEach(userIds, customers, LookupMap(lookupMap.map),
                          cache, t)
    IN  [all EXCEPT !.requests = lookupMap.requests \o @]

\* The VIRTUAL_CURRENCY_TRANSACTION branch that adds the balances fetched to
\* the rows it finds
currencyTransactionKeepRows(u, answer, cache, t) ==
    LET get == <<<<"GET virtual_currencies", u>>>>
    IN  IF ~answer.ok
        THEN [threw |-> TRUE, requests |-> get, cache |-> cache]
        ELSE [threw |-> FALSE, requests |-> get,
              cache |-> [cache EXCEPT !.virtual_currency_balances =
                            InsertBalances(
                                @, u, t,
                                parseVirtualCurrencyBalances(answer.items))]]

\* The VIRTUAL_CURRENCY_TRANSACTION branch of processEvent on the tables
currencyTransaction(u, answer, cache, t) ==
    LET get == <<<<"GET virtual_currencies", u>>>>
    IN  IF ~answer.ok
        THEN [threw |-> TRUE, requests |-> get, cache |-> cache]
        ELSE [threw |-> FALSE, requests |-> get,
              cache |-> [cache EXCEPT !.virtual_currency_balances =
                            syncVirtualCurrencyBalancesMutation(
                                @, u, t,
                                parseVirtualCurrencyBalances(answer.items))]]

\* processEvent on the cache tables, for an event ev, the apiKey and projectId
\* of the deployment (unset when empty) and upstream's answers: the customer
\* of each user, the entitlement definitions and the balances.  The requests
\* made, whether it threw, and the tables it leaves.
processEventOnCache(ev, apiKey, projectId, customers, definitions, answer, cache, t) ==
    LET appUserId == ev.app_user_id
        fails == [threw |-> TRUE, requests |-> <<>>, cache |-> cache]
        unset == apiKey = "" \/ projectId = ""
    IN  CASE ev.type \in EntitlementEventTypes ->
               IF unset \/ appUserId = NoUser THEN fails
               ELSE LET r == fullResyncTables(appUserId, customers[appUserId],
                                              NoLookupMap, definitions,
                                              cache.subscribers,
                                              cache.entitlements, t)
                    IN  [threw |-> r.threw, requests |-> r.requests,
                         cache |-> [cache EXCEPT
                                       !.subscribers = r.subscribers,
                                       !.entitlements = r.entitlements]]
          [] ev.type = "TRANSFER" ->
               IF unset THEN fails
               ELSE transfer(ev, customers, definitions, cache, t)
          [] ev.type = "VIRTUAL_CURRENCY_TRANSACTION" ->
               IF unset \/ appUserId = NoUser THEN fails
               ELSE currencyTransaction(appUserId, answer, cache, t)
          [] ev.type \in InformationalEventTypes ->
               [threw |-> FALSE, requests |-> <<>>, cache |-> cache]
          [] OTHER -> [threw |-> FALSE, requests |-> <<>>, cache |-> cache]

\* The TRANSFER events explored: with or without app_user_id, lists that are
\* missing, repeat an id, hold an empty id or name the other user.
TransferEvents ==
    {SampleEvent("TRANSFER", user, from, to) :
        user \in {"u1", NoUser},
        from \in {<<>>, <<"u1">>, <<"u1", "u1">>, <<NoUser, "u2">>},
        to \in {<<>>, <<"u2">>, <<"u2", "u1">>}}

\* The events explored: the samples of every branch of the switch, the
\* currency event without app_user_id, and the TRANSFER events.
DispatchedEvents ==
    SampleEvents
    \cup {SampleEvent("VIRTUAL_CURRENCY_TRANSACTION", NoUser, <<>>, <<>>)}
    \cup TransferEvents

\* Upstream's customers explored under a dispatch: not found, a server error,
\* one entitlement, and two entitlements on two pages.
DispatchCustomers ==
    {c \in UpstreamCustomers :
        /\ c.object # "list"
        /\ c.status = "ok" => c.items # <<>>
        /\ \A i \in 1 .. Len(c.pages) : c.pages[i].ok}

\* Upstream's answers at the time of a dispatch.
Upstream(customers, definitions, answer) ==
    [customers |-> customers, definitions |-> definitions, answer |-> answer]

\* processEvent runs for event ev on a deployment with credentials cred; one
\* dispatch is followed from each stored cache, and recorded with the
\* credentials and upstream's answers after the event.
Dispatched(ev, cred, upstream) ==
    LET out == processEventOnCache(ev, cred[1], cred[2], upstream.customers,
                                   upstream.definitions, upstream.answer,
                                   Cache(subscribers, entitlements,
                                         virtual_currency_balances), now)
    IN  /\ lastCall.op = NoCall.op
        /\ subscribers' = out.cache.subscribers
        /\ entitlements' = out.cache.entitlements
        /\ virtual_currency_balances' = out.cache.virtual_currency_balances
        /\ lastCall' = [op |-> "processEvent", user |-> ev.app_user_id,
                        args |-> <<ev, cred, upstream>>, upstream |-> "",
                        requests |-> out.requests, threw |-> out.threw,
                        returned |-> <<>>, deleted |-> 0]
        /\ UNCHANGED now
        /\ UNCHANGED ledgerVars

\* Upstream as it is left out of the picture: everyone is found with one
\* entitlement, the definitions are listed and no balance is held.
QuietUpstream ==
    Upstream([u \in Users |-> Customer("ok", "customer",
                                       <<Item("entl_a", 2 * Tick)>>, <<>>)],
             CHOOSE d \in ListedDefinitions : TRUE,
             Answer(TRUE, <<>>))

\* The dispatch of an event that resyncs entitlements.
DispatchResync ==
    \E ev \in {e \in DispatchedEvents :
                  e.type \in EntitlementEventTypes \cup {"TRANSFER"}},
       customers \in [Users -> DispatchCustomers],
       definitions \in UpstreamDefinitions :
        Dispatched(ev, <<"key", "proj">>,
                   [QuietUpstream EXCEPT !.customers = customers,
                                         !.definitions = definitions])

\* The dispatch of a VIRTUAL_CURRENCY_TRANSACTION event.
DispatchCurrency ==
    \E ev \in {e \in DispatchedEvents :
                  e.type = "VIRTUAL_CURRENCY_TRANSACTION"},
       answer \in UpstreamBalances :
        Dispatched(ev, <<"key", "proj">>,
                   [QuietUpstream EXCEPT !.answer = answer])

\* The dispatch of an event that needs no sync.
DispatchNoSync ==
    \E ev \in {e \in DispatchedEvents :
                  e.type \notin EntitlementEventTypes
                                \cup {"TRANSFER", "VIRTUAL_CURRENCY_TRANSACTION"}},
       cred \in Credentials :
        Dispatched(ev, cred, QuietUpstream)

\* The dispatch of any event on a deployment without API key or project id.
DispatchUnset ==
    \E ev \in DispatchedEvents, cred \in Credentials \ {<<"key", "proj">>} :
        Dispatched(ev, cred, QuietUpstream)

\* The caches a dispatch finds: empty, or left by earlier resyncs of both users
\* (two entitlements each) and earlier balances of both.
StoredCaches ==
    LET listed == CHOOSE d \in ListedDefinitions : TRUE
        twoPages == CHOOSE c \in DispatchCustomers : c.pages # <<>>
        resynced == ResyncEach(<<"u1", "u2">>, [u \in Users |-> twoPages],
                               LookupMap(fetchEntitlementLookupMap(listed).map),
                               Cache({}, {}, {}), 0).cache
        held == <<[currencyCode |-> "GLD", balance |-> 100],
                  [currencyCode |-> "GEM", balance |-> 5]>>
    IN  {Cache({}, {}, {}),
         [resynced EXCEPT !.virtual_currency_balances =
             syncVirtualCurrencyBalancesMutation(
                 syncVirtualCurrencyBalancesMutation({}, "u1", 0, held),
                 "u2", 0, held)]}

DispatchInit ==
    /\ now \in {0, Tick}
    /\ IdleLedger
    /\ \E cache \in StoredCaches :
          /\ subscribers = cache.subscribers
          /\ entitlements = cache.entitlements
          /\ virtual_currency_balances = cache.virtual_currency_balances
    /\ lastCall = NoCall

DispatchNext ==
    \/ DispatchResync
    \/ DispatchCurrency
    \/ DispatchNoSync
    \/ DispatchUnset

DispatchSpec == DispatchInit /\ [][DispatchNext]_vars

\* ------------------------------------------------- calls without credentials
\* One client call or one webhook dispatch on a deployment whose cache is empty
\* or filled, with the API key and project id set or one of them unset.
CredentialsNext ==
    \/ lastCall.op = NoCall.op /\ SyncSubscriber
    \/ lastCall.op = NoCall.op /\ SyncVirtualCurrencyBalances
    \/ lastCall.op = NoCall.op /\ SpendVirtualCurrency
    \/ DispatchUnset

CredentialsSpec == DispatchInit /\ [][CredentialsNext]_vars

\* ------------------------------------------------ syncs of different users
\* A balance sync, a resync, or a balance sync followed by a resync, of any
\* two users, on a deployment whose cache is empty or holds rows of both.
IndependentNext ==
    \/ lastCall.op = NoCall.op /\ SyncVirtualCurrencyBalances
    \/ lastCall.op \in {NoCall.op, "syncVirtualCurrencyBalances"}
          /\ SyncSubscriber
    \/ lastCall.op \in {NoCall.op, "syncVirtualCurrencyBalances"}
          /\ FullResync

IndependentSpec == DispatchInit /\ [][IndependentNext]_vars

\* ------------------------------------------- recovery from a lost invocation
\* An invocation that holds the lock is lost: it crashed or hangs, and takes
\* no further step.
Crash ==
    /\ \E d \in Running :
         /\ d.pc \in {"processEvent", "onEvent", "customHandler", "mark",
                      "unreserve"}
         /\ deliveries' = Take(deliveries, d)
    /\ UNCHANGED <<now, webhook_events, payload, config, completed, reclaimed>>
    /\ UNCHANGED cacheVars

\* Time passes beyond the last tick of the modelled clock.  The ledger reads
\* the clock only as the age Date.now() - processedAt, so the clock is held
\* and every record is made a tick older, down to processedAt = 0.
Elapse ==
    /\ now = MaxTicks * Tick
    /\ webhook_events' =
          {[r EXCEPT !.processedAt = IF @ >= Tick THEN @ - Tick ELSE @] :
              r \in webhook_events}
    /\ UNCHANGED <<now, payload, config, deliveries, completed, reclaimed>>
    /\ UNCHANGED cacheVars

\* The sender delivers the event with the right credential and a valid body.
Redeliver ==
    \E e \in DOMAIN payload :
        Posted(e, Request("secret", Bearer("secret"),
                          Body(TRUE, TRUE, Str(e), Str(payload[e].type),
                               Num(payload[e].event_timestamp_ms))))

\* A deployment without hooks whose sender delivers an event that a dispatch
\* can complete.
RecoveryInit ==
    /\ now = 0
    /\ webhook_events = {}
    /\ payload \in [EventIds -> {SampleEvent("TEST", "u1", <<>>, <<>>),
                                  SampleEvent("INITIAL_PURCHASE", "u1",
                                              <<>>, <<>>)}]
    /\ config = NoHooks
    /\ deliveries = EmptyBag
    /\ completed = [e \in EventIds \cup {EmptyId} |-> 0]
    /\ reclaimed = [e \in EventIds \cup {EmptyId} |-> 0]
    /\ EmptyCache

RecoveryNext ==
    \/ Deliver
    \/ CheckAndRecord
    \/ ProcessEvent
    \/ MarkProcessed
    \/ Unreserve
    \/ Crash
    \/ Advance
    \/ Elapse

\* The step of an invocation from one stage of the handler to another.
Reaches(from, to) ==
    \E d \in Running :
        /\ d.pc = from
        /\ \E d2 \in BagToSet(deliveries') :
              d2.pc = to /\ deliveries' = Put(Take(deliveries, d), d2)

\* Time passes and no invocation that is not lost stops; the sender keeps
\* redelivering, and a lock that can be taken, a dispatch that can succeed and
\* a record that can be promoted are not failed or lost forever.
RecoveryFairness ==
    /\ WF_vars(Advance)
    /\ WF_vars(Elapse /\ webhook_events' # webhook_events)
    /\ WF_vars(CheckAndRecord)
    /\ WF_vars(ProcessEvent)
    /\ WF_vars(MarkProcessed)
    /\ WF_vars(Unreserve)
    /\ SF_vars(Redeliver)
    /\ SF_vars(CheckAndRecord /\ webhook_events' # webhook_events)
    /\ SF_vars(ProcessEvent /\ Reaches("processEvent", "mark"))
    /\ SF_vars(MarkProcessed /\ webhook_events' # webhook_events)

RecoverySpec == RecoveryInit /\ [][RecoveryNext]_vars /\ RecoveryFairness

\* ------------------------------------------------- resyncs of paged listings
\* Upstream's entitlement definitions on two pages: both listed, or the request
\* of the second failing after the first was listed.
PagedDefinitions ==
    {<<Page(TRUE, <<[id |-> "entl_a", lookup_key |-> "premium"]>>),
       Page(TRUE, <<[id |-> "entl_b", lookup_key |-> "pro"]>>)>>,
     <<Page(TRUE, <<[id |-> "entl_a", lookup_key |-> "premium"]>>),
       Page(FALSE, <<>>)>>}

\* A customer whose active entitlements come on three pages, the request of the
\* third succeeding or failing.
PagedCustomers ==
    {Customer("ok", "customer", <<Item("entl_a", 2 * Tick)>>,
              <<Page(TRUE, <<Item("entl_b", 0)>>), Page(ok, <<Item("entl_c", 0)>>)>>) :
        ok \in BOOLEAN}

\* One syncSubscriber call on a deployment whose cache is empty or filled,
\* recorded with what upstream listed.
ListedSyncSubscriber ==
    \E u \in Users, customer \in UpstreamCustomers \cup PagedCustomers,
       definitions \in UpstreamDefinitions \cup PagedDefinitions :
        /\ lastCall.op = NoCall.op
        /\ Resynced("syncSubscriber", u, <<customer, definitions>>,
                    customer.status,
                    syncSubscriber("key", "proj", u, customer, definitions,
                                   subscribers, entitlements, now))

\* One webhook resync (fullResync without lookup map) on the same deployment.
ListedFullResync ==
    \E u \in Users, customer \in UpstreamCustomers \cup PagedCustomers,
       definitions \in UpstreamDefinitions \cup PagedDefinitions :
        /\ lastCall.op = NoCall.op
        /\ Resynced("fullResync", u, <<customer, definitions>>,
                    customer.status,
                    fullResyncTables(u, customer, NoLookupMap, definitions,
                                     subscribers, entitlements, now))

ListingNext ==
    \/ ListedSyncSubscriber
    \/ ListedFullResync

ListingSpec == DispatchInit /\ [][ListingNext]_vars

\* ------------------------------------------------------- redelivered resyncs
\* The webhook resync of one user, run again by every redelivery of the event
\* (fullResync without lookup map), upstream answering as before or otherwise,
\* on a deployment whose cache is empty or filled.  The call is recorded with
\* what upstream listed.
RedeliveredResync ==
    \E u \in Users, customer \in UpstreamCustomers \cup ListedTwice,
       definitions \in UpstreamDefinitions :
        /\ lastCall.op = NoCall.op \/ lastCall.user = u
        /\ Resynced("fullResync", u, <<customer, definitions>>,
                    customer.status,
                    fullResyncTables(u, customer, NoLookupMap, definitions,
                                     subscribers, entitlements, now))

RedeliveryNext ==
    \/ RedeliveredResync
    \/ Advance

RedeliverySpec == DispatchInit /\ [][RedeliveryNext]_vars

\* -------------------------------------------------------- concurrent resyncs
\* Resyncs of one user running side by side: webhook resyncs (fullResync) and
\* iterations of a poll (syncSubscriber).  Each awaits the upstream fetch, takes
\* lastSyncedAt = Date.now(), and awaits the syncSubscriberAndEntitlements
\* mutation; other resyncs run between these steps.

\* What upstream answers to GET customer at time t: the customer holds one
\* entitlement, buys a second a tick later, and holds none after another tick.
UpstreamAt(t) ==
    IF t < Tick THEN Customer("ok", "customer", <<Item("entl_a", 2 * Tick)>>, <<>>)
    ELSE IF t < 2 * Tick
    THEN Customer("ok", "customer", <<Item("entl_a", 2 * Tick)>>,
                  <<Page(TRUE, <<Item("entl_b", 0)>>)>>)
    ELSE Customer("ok", "customer", <<>>, <<>>)

\* A resync of user u that is about to fetch.
Started(op, u) ==
    [op |-> op, user |-> u, pc |-> "fetch", fetchedAt |-> 0,
     customer |-> UpstreamAt(0),
     result |-> fetchCustomerAndEntitlements(u, UpstreamAt(0), NoLookupMap,
                                             CHOOSE d \in ListedDefinitions : TRUE),
     lastSyncedAt |-> 0]

\* A webhook dispatch or a poll iteration starts a resync of u1.
StartResync ==
    /\ BagCardinality(deliveries) < NumHandlers
    /\ \E op \in {"fullResync", "syncSubscriber"} :
          deliveries' = Put(deliveries, Started(op, "u1"))
    /\ UNCHANGED <<now, webhook_events, payload, config, completed, reclaimed>>
    /\ UNCHANGED cacheVars

\* await fetchCustomerAndEntitlements(...): upstream answers with its state at
\* the time of the request.
Fetch ==
    /\ \E d \in Running, definitions \in ListedDefinitions :
          /\ d.pc = "fetch"
          /\ LET result == fetchCustomerAndEntitlements(d.user, UpstreamAt(now),
                                                        NoLookupMap, definitions)
             IN  Becomes(d, [d EXCEPT !.pc = IF result.threw THEN "done"
                                             ELSE IF result.null THEN "write"
                                             ELSE "stamp",
                                      !.fetchedAt = now,
                                      !.customer = UpstreamAt(now),
                                      !.result = result])
    /\ UNCHANGED <<now, webhook_events, payload, config, completed, reclaimed>>
    /\ UNCHANGED cacheVars

\* const lastSyncedAt = Date.now(), once the fetch has returned
Stamp ==
    /\ \E d \in Running :
          /\ d.pc = "stamp"
          /\ Becomes(d, [d EXCEPT !.pc = "write", !.lastSyncedAt = now])
    /\ UNCHANGED <<now, webhook_events, payload, config, completed, reclaimed>>
    /\ UNCHANGED cacheVars

\* await ctx.runMutation(syncSubscriberAndEntitlements, {...}) (or
\* clearEntitlements after a 404)
Write ==
    /\ \E d \in Running :
          /\ d.pc = "write"
          /\ LET tables == WriteFetched(d.result, d.user, d.customer,
                                        subscribers, entitlements,
                                        d.lastSyncedAt)
                 outcome == [threw |-> FALSE, requests |-> d.result.requests,
                             returned |-> <<>>,
                             subscribers |-> tables.subscribers,
                             entitlements |-> tables.entitlements]
             IN  /\ subscribers' = tables.subscribers
                 /\ entitlements' = tables.entitlements
                 /\ lastCall' = Call(d.op, d.user,
                                     <<d.fetchedAt, d.lastSyncedAt>>,
                                     d.customer.status, outcome,
                                     Deleted(d.user, outcome))
          /\ Becomes(d, [d EXCEPT !.pc = "done"])
    /\ UNCHANGED <<now, webhook_events, payload, config, completed, reclaimed,
                   virtual_currency_balances>>

ConcurrentInit ==
    /\ now = 0
    /\ IdleLedger
    /\ EmptyCache
    /\ lastCall = NoCall

ConcurrentNext ==
    \/ StartResync
    \/ Fetch
    \/ Stamp
    \/ Write
    \/ Advance

ConcurrentSpec == ConcurrentInit /\ [][ConcurrentNext]_vars

\* ---------------------------------------------------------- pollForEntitlement
MaxAttempts == 3      \* the largest maxAttempts a poll is called with

\* An optional argument that is not given
NoArg == 0 - 1

\* arg ?? default
OrDefault(arg, default) == IF arg = NoArg THEN default ELSE arg

\* await new Promise((resolve) => setTimeout(resolve, intervalMs)), as an
\* entry of the requests a call makes
Timeout(intervalMs) == <<"setTimeout", intervalMs>>

\* Upstream's answers to the GET customer of a poll iteration: not found, a
\* server error, no entitlement, one, and two on two pages.
PolledCustomers ==
    {c \in UpstreamCustomers :
        c.object # "list" /\ \A i \in 1 .. Len(c.pages) : c.pages[i].ok}

\* A pollForEntitlement call in its for loop: the arguments, the value of
\* attempt, where it stands (before the syncSubscriber call, in the wait, or
\* returned), the requests and waits made so far and what it returned.
Poll(u, args, attempt, pc, requests, threw, returned) ==
    [op |-> "pollForEntitlement", user |-> u, args |-> args, upstream |-> "",
     requests |-> requests, threw |-> threw, returned |-> returned,
     deleted |-> 0, attempt |-> attempt, pc |-> pc]

\* return { found, attempts }
Returned(found, attempts) == <<[found |-> found, attempts |-> attempts]>>

\* What the loop does after the syncSubscriber call of an attempt returned
\* result, without the test of attempt < maxAttempts: it waits after every
\* attempt that did not find the entitlement.
afterAttemptAlwaysWaits(poll, result, maxAttempts) ==
    IF Found(result, poll.args[1])
    THEN [poll EXCEPT !.pc = "returned",
                      !.returned = Returned(TRUE, poll.attempt)]
    ELSE [poll EXCEPT !.pc = "wait"]

\* What the loop does after the syncSubscriber call of an attempt returned
\* result: return found, wait, or leave the loop and return not found.
afterAttempt(poll, result, maxAttempts) ==
    IF Found(result, poll.args[1])
    THEN [poll EXCEPT !.pc = "returned",
                      !.returned = Returned(TRUE, poll.attempt)]
    ELSE IF poll.attempt < maxAttempts
    THEN [poll EXCEPT !.pc = "wait"]
    ELSE [poll EXCEPT !.pc = "returned",
                      !.returned = Returned(FALSE, maxAttempts)]

\* The loop goes on after a wait, without counting the attempt
afterWaitSameAttempt(poll, intervalMs, maxAttempts) ==
    [poll EXCEPT !.requests = @ \o <<Timeout(intervalMs)>>,
                 !.pc = IF poll.attempt <= maxAttempts THEN "sync"
                        ELSE "returned",
                 !.returned = IF poll.attempt <= maxAttempts THEN @
                              ELSE Returned(FALSE, maxAttempts)]

\* The wait has passed: attempt++ and the test attempt <= maxAttempts
afterWait(poll, intervalMs, maxAttempts) ==
    [poll EXCEPT !.requests = @ \o <<Timeout(intervalMs)>>,
                 !.attempt = @ + 1,
                 !.pc = IF poll.attempt + 1 <= maxAttempts THEN "sync"
                        ELSE "returned",
                 !.returned = IF poll.attempt + 1 <= maxAttempts THEN @
                              ELSE Returned(FALSE, maxAttempts)]

\* A poll is running.
Polling == lastCall.op = "pollForEntitlement" /\ lastCall.pc # "returned"

\* The host application calls RevenueCatSync.pollForEntitlement, with or
\* without intervalMs: attempt = 1 and the first test of the loop.
PollStart ==
    /\ ~Polling
    /\ \E u \in Users, id \in EntitlementIds, maxAttempts \in 0 .. MaxAttempts,
          intervalMs \in {NoArg, 2000} :
          lastCall' =
              IF 1 <= maxAttempts
              THEN Poll(u, <<id, maxAttempts, intervalMs>>, 1, "sync", <<>>,
                        FALSE, <<>>)
              ELSE Poll(u, <<id, maxAttempts, intervalMs>>, 1, "returned",
                        <<>>, FALSE, Returned(FALSE, maxAttempts))
    /\ UNCHANGED <<now, subscribers, entitlements, virtual_currency_balances>>
    /\ UNCHANGED ledgerVars

\* An attempt: await this.syncSubscriber(...), the test of its result, and the
\* test of attempt < maxAttempts.
PollAttempt ==
    /\ Polling
    /\ lastCall.pc = "sync"
    /\ \E customer \in PolledCustomers, definitions \in UpstreamDefinitions :
          LET out == syncSubscriber("key", "proj", lastCall.user, customer,
                                    definitions, subscribers, entitlements, now)
              made == [lastCall EXCEPT !.requests = @ \o out.requests]
          IN  /\ subscribers' = out.subscribers
              /\ entitlements' = out.entitlements
              /\ lastCall' =
                    IF out.threw
                    THEN [made EXCEPT !.pc = "returned", !.threw = TRUE]
                    ELSE afterAttempt(made, out.returned, lastCall.args[2])
    /\ UNCHANGED <<now, virtual_currency_balances>>
    /\ UNCHANGED ledgerVars

\* The wait between two attempts has passed.
PollWait ==
    /\ Polling
    /\ lastCall.pc = "wait"
    /\ lastCall' = afterWait(lastCall, OrDefault(lastCall.args[3], 3000),
                             lastCall.args[2])
    /\ UNCHANGED <<now, subscribers, entitlements, virtual_currency_balances>>
    /\ UNCHANGED ledgerVars

PollNext ==
    \/ PollStart
    \/ PollAttempt
    \/ PollWait

PollSpec == SyncInit /\ [][PollNext]_vars

\* ------------------------------------------------------------------- claims
DispatchPcs == {"processEvent", "onEvent", "customHandler", "mark", "unreserve"}

\* The invocations that hold the lock of event e: between "acquired" and their
\* markEventProcessed / unreserveEvent call.
InFlight(e) ==
    BagCardinality([d \in {x \in Running : x.event = e /\ x.pc \in DispatchPcs}
                      |-> deliveries[d]])

Permanent(r) == r.status \in {NoStatus, "processed", "processed_pending"}

\* Invocation d returns from checkAndRecordEvent in this step, as d2.
CheckReturns(d, d2) ==
    /\ d.pc = "check"
    /\ d2.pc # "check"
    /\ d2.response # RespCheckFailed
    /\ Becomes(d, d2)

\* Invocation d returns from markEventProcessed in this step, as d2.
MarkReturns(d, d2) ==
    /\ d.pc = "mark"
    /\ d2.response = RespReceived
    /\ Becomes(d, d2)

\* Invocation d returns from unreserveEvent in this step, as d2; the call
\* threw when the release failure is logged.
UnreserveReturns(d, d2) ==
    /\ d.pc = "unreserve"
    /\ d2.pc = "done"
    /\ ReleaseFailedLog \notin d2.logged
    /\ Becomes(d, d2)

\* C1 as stated: for every event id the dispatch runs to successful
\* completion at most once, under any interleaving of deliveries.
C1_DispatchCompletesAtMostOnce ==
    \A e \in EventIds : completed[e] <= 1

\* C1 as amended: the dispatch of an event id runs to successful completion at
\* most once for as long as no lock of that id has been reclaimed after the
\* TTL, and each reclamation of a stale lock allows at most one more.
C1_CompletionsBoundedByReclaims ==
    \A e \in EventIds : completed[e] <= 1 + reclaimed[e]

\* A dispatch completed, its lock was reclaimed after the TTL, and the
\* dispatch completed a second time.
C1_Witness ==
    \E e \in EventIds : completed[e] = 2 /\ reclaimed[e] = 1

\* C2: a checkAndRecordEvent call that finds no record returns "acquired" and
\* leaves exactly one processing record stamped now; a call that finds a
\* processing record no older than the TTL returns "processing" and changes
\* nothing, so of any number of concurrent calls exactly one acquires.
C2_ExactlyOneAcquires ==
    [][\A d \in Running : \A d2 \in BagToSet(deliveries') :
         CheckReturns(d, d2) =>
           LET m == Matching(webhook_events, d.event)
               m2 == Matching(webhook_events', d.event)
           IN  /\ m = {} =>
                     /\ d2.lockState = "acquired"
                     /\ Cardinality(m2) = 1
                     /\ \A r \in m2 : r.status = "processing"
                                      /\ r.processedAt = now
               /\ \A r \in m :
                     (r.status = "processing"
                      /\ now - r.processedAt <= LOCK_TTL_MS) =>
                        /\ d2.lockState = "processing"
                        /\ webhook_events' = webhook_events]_vars

\* One delivery holds the lock it acquired on an empty ledger while a
\* concurrent delivery of the same event was told "processing".
C2_Witness ==
    \E d1 \in Running, d2 \in Running :
        /\ d1.event = d2.event
        /\ d1.pc \in DispatchPcs
        /\ d1.lockState = "acquired"
        /\ d1.seen.status = "absent"
        /\ d2.lockState = "processing"
        /\ d2.seen.age = "younger"

\* C3 as stated: at every moment at most one handler is between "acquired" and
\* its markEventProcessed / unreserveEvent call for a given event id.
C3_SingleFlight ==
    \A e \in EventIds : InFlight(e) <= 1

\* C3 as amended: the handlers between "acquired" and their markEventProcessed
\* / unreserveEvent call for an event id number at most one plus the stale
\* locks of that id reclaimed so far, and a delivery that did not obtain
\* "acquired" performs no side effect.
C3_SingleFlightUntilReclaimed ==
    /\ \A e \in EventIds : InFlight(e) <= 1 + reclaimed[e]
    /\ \A d \in Running :
         (d.pc \in DispatchPcs \/ d.effects # <<>> \/ d.done # {})
            => d.lockState = "acquired"

\* Two handlers hold the lock of one event, the second after reclaiming it.
C3_Witness ==
    \E e \in EventIds : InFlight(e) = 2 /\ reclaimed[e] = 1

\* C4: a record that is processed, processed_pending or without status stays
\* in the ledger with such a status through every ledger call, and every
\* checkAndRecordEvent that finds it returns "processed", whatever its age.
C4_ProcessedIsPermanent ==
    [][/\ \A r \in webhook_events :
            Permanent(r) =>
               \E r2 \in webhook_events' :
                  /\ r2._id = r._id
                  /\ r2.revenuecatEventId = r.revenuecatEventId
                  /\ Permanent(r2)
       /\ \A d \in Running : \A d2 \in BagToSet(deliveries') :
            (CheckReturns(d, d2)
             /\ \E r \in Matching(webhook_events, d.event) : Permanent(r))
               => d2.lockState = "processed"]_vars

\* A delivery was told "processed" by a record marked processed more than ten
\* minutes earlier.
C4_Witness ==
    \E d \in Running :
        /\ d.lockState = "processed"
        /\ d.seen = [status |-> "processed", age |-> "older"]

\* C5: checkAndRecordEvent on a processing record older than the TTL deletes
\* it, inserts a fresh processing record stamped now and returns "acquired";
\* on one no older than the TTL it returns "processing" and changes nothing.
C5_StaleLockReclaimed ==
    [][\A d \in Running : \A d2 \in BagToSet(deliveries') :
         CheckReturns(d, d2) =>
           \A r \in Matching(webhook_events, d.event) :
              r.status = "processing" =>
                 IF now - r.processedAt > LOCK_TTL_MS
                 THEN /\ d2.lockState = "acquired"
                      /\ \A r2 \in webhook_events' : r2._id # r._id
                      /\ Cardinality(Matching(webhook_events', d.event)) = 1
                      /\ \A r2 \in Matching(webhook_events', d.event) :
                            r2.status = "processing" /\ r2.processedAt = now
                 ELSE /\ d2.lockState = "processing"
                      /\ webhook_events' = webhook_events]_vars

\* A delivery holds a lock it acquired by reclaiming a stale one.
C5_Witness ==
    \E d \in Running :
        /\ d.lockState = "acquired"
        /\ d.seen = [status |-> "processing", age |-> "older"]
        /\ \E r \in Matching(webhook_events, d.event) :
              r.status = "processing" /\ r.processedAt = now

\* C6: unreserveEvent on a processing record removes it; a record that is
\* absent stays absent until a checkAndRecordEvent for its id, and that call
\* returns "acquired": so does the next call after a release, at any time.
C6_ReleaseThenAcquire ==
    [][/\ \A d \in Running : \A d2 \in BagToSet(deliveries') :
            /\ (UnreserveReturns(d, d2)
                /\ StatusOf(webhook_events, d.event) = "processing")
                  => Matching(webhook_events', d.event) = {}
            /\ (CheckReturns(d, d2) /\ Matching(webhook_events, d.event) = {})
                  => d2.lockState = "acquired"
       /\ \A e \in EventIds :
            (Matching(webhook_events, e) = {} /\ Matching(webhook_events', e) # {})
               => \E d \in Running : \E d2 \in BagToSet(deliveries') :
                     CheckReturns(d, d2) /\ d.event = e]_vars

\* One delivery failed and released its lock; later, a delivery of the same
\* event acquired the lock on an empty ledger.
C6_Witness ==
    \E d1 \in Running, d2 \in Running :
        /\ d1.event = d2.event
        /\ d1.response = RespProcessingError
        /\ ReleaseFailedLog \notin d1.logged
        /\ d2.pc \in DispatchPcs
        /\ d2.seen.status = "absent"
        /\ reclaimed[d1.event] = 0
        /\ now > 0

\* C7: a delivery whose checkAndRecordEvent finds a processed record answers
\* 200 {received:true, duplicate:true}, without an upstream request, a cache
\* mutation, a hook invocation or a change of the ledger.
C7_DuplicateDoesNothing ==
    /\ [](\A d \in Running : d.lockState = "processed" => d.pc = "done")
    /\ [][\A d \in Running : \A d2 \in BagToSet(deliveries') :
            (CheckReturns(d, d2)
             /\ \E r \in Matching(webhook_events, d.event) : Permanent(r))
               => /\ d2.response = RespDuplicate
                  /\ d2.pc = "done"
                  /\ d2.effects = <<>> /\ d2.done = {}
                  /\ webhook_events' = webhook_events]_vars

\* An event was dispatched and marked processed, and a later delivery of it
\* got the duplicate answer.
C7_Witness ==
    \E d \in Running :
        /\ d.response = RespDuplicate
        /\ d.seen.status = "processed"
        /\ completed[d.event] >= 1

\* C8: a delivery whose checkAndRecordEvent finds a lock no older than the TTL
\* answers 409 {received:true, retry:true} with Retry-After: 30, without an
\* upstream request, a cache mutation, a hook invocation or a change of the
\* ledger.
C8_ContendedDoesNothing ==
    /\ [](\A d \in Running : d.lockState = "processing" => d.pc = "done")
    /\ [][\A d \in Running : \A d2 \in BagToSet(deliveries') :
            (CheckReturns(d, d2)
             /\ \E r \in Matching(webhook_events, d.event) :
                   r.status = "processing"
                   /\ now - r.processedAt <= LOCK_TTL_MS)
               => /\ d2.response = [status |-> 409,
                                    body |-> "{received:true,retry:true}",
                                    retryAfter |-> "30"]
                  /\ d2.pc = "done"
                  /\ d2.effects = <<>> /\ d2.done = {}
                  /\ webhook_events' = webhook_events]_vars

\* A delivery got the retry answer while another one holds the lock.
C8_Witness ==
    \E d \in Running :
        /\ d.response = RespRetry
        /\ d.seen.status = "processing"
        /\ InFlight(d.event) = 1

\* C9 as stated: a record is processed only after a dispatch of its event ran
\* to completion, and a handler that answered 200 {received:true} has its
\* event's record marked processed.
C9_ProcessedBeforeReceived ==
    /\ \A r \in webhook_events :
         r.status = "processed" => completed[r.revenuecatEventId] >= 1
    /\ \A d \in Running :
         d.response = RespReceived =>
            StatusOf(webhook_events, d.event) = "processed"

\* C9 as amended: a record becomes processed only in the markEventProcessed
\* call of a handler whose built-in effect and configured hooks all returned
\* normally; a handler answers 200 {received:true} only after that call
\* returned, and the record is then processed unless the handler's lock had
\* been reclaimed after the TTL (the reclaiming handler may have released it,
\* and markEventProcessed on a missing record does nothing).
C9_MarkedAfterDispatch ==
    [][/\ \A r2 \in webhook_events' :
            (r2.status = "processed" /\ r2 \notin webhook_events) =>
               \E d \in Running : \E d2 \in BagToSet(deliveries') :
                  /\ MarkReturns(d, d2)
                  /\ d.event = r2.revenuecatEventId
                  /\ DispatchComplete(d.done, config, payload[d.event].type)
       /\ \A d \in Running : \A d2 \in BagToSet(deliveries') :
            (Becomes(d, d2) /\ d # d2 /\ d2.response = RespReceived) =>
               /\ d.pc = "mark"
               /\ DispatchComplete(d.done, config, payload[d.event].type)
               /\ Matching(webhook_events, d.event) # {} =>
                     StatusOf(webhook_events', d.event) = "processed"
               /\ reclaimed[d.event] = 0 =>
                     StatusOf(webhook_events', d.event) = "processed"]_vars

\* With both hooks configured a handler answered 200 {received:true} and the
\* record of its event is processed.
C9_Witness ==
    \E d \in Running :
        /\ d.response = RespReceived
        /\ config.onEvent /\ payload[d.event].type \in config.events
        /\ StatusOf(webhook_events, d.event) = "processed"
        /\ completed[d.event] = 1

\* The stage of invocation d ends with an exception in this step.
StageThrows(d, d2) ==
    /\ d.pc \in {"processEvent", "onEvent", "customHandler"}
    /\ d2.pc # d.pc
    /\ d.pc \notin d2.done
    /\ Becomes(d, d2)

\* The handler's catch block ends in this step, with or without unreserveEvent
\* having thrown.
CatchEnds(d, d2) ==
    /\ d.pc = "unreserve"
    /\ d2.pc # "unreserve"
    /\ Becomes(d, d2)

\* What the next delivery of event e is told at time t by the ledger table.
NextDelivery(table, e, t) ==
    checkAndRecordEvent(table, e, payload[e].type,
                        payload[e].event_timestamp_ms, t).result

\* C10 as stated: a dispatch stage that throws takes the handler to
\* unreserveEvent and a 500 response, after which the next delivery of the
\* event obtains "acquired".
C10_FailureThenAcquire ==
    [][\A d \in Running : \A d2 \in BagToSet(deliveries') :
         /\ StageThrows(d, d2) => d2.pc = "unreserve"
         /\ CatchEnds(d, d2) =>
               /\ d2.pc = "done" /\ d2.response.status = 500
               /\ NextDelivery(webhook_events', d.event, now) = "acquired"]_vars

\* C10 as amended: a dispatch stage that throws takes the handler to
\* unreserveEvent and a 500 response; when unreserveEvent does not throw and
\* no other handler has recorded the event as processed, no record of the
\* event is left, and the next delivery, whenever it comes, obtains "acquired"
\* and dispatches again.
C10_FailureReleasesLock ==
    [][\A d \in Running : \A d2 \in BagToSet(deliveries') :
         /\ StageThrows(d, d2) => d2.pc = "unreserve"
         /\ CatchEnds(d, d2) =>
               /\ d2.pc = "done" /\ d2.response = RespProcessingError
         /\ (UnreserveReturns(d, d2)
             /\ \A r \in Matching(webhook_events, d.event) : ~Permanent(r))
               => /\ Matching(webhook_events', d.event) = {}
                  /\ \A k \in 0 .. MaxTicks :
                        NextDelivery(webhook_events', d.event, now + k * Tick)
                           = "acquired"
                  /\ LockRoute("acquired").pc = "processEvent"]_vars

\* A dispatch failed and its lock was released; a later delivery of the event
\* acquired the lock and has run its built-in effect again.
C10_Witness ==
    \E d1 \in Running, d2 \in Running :
        /\ d1.event = d2.event
        /\ d1.response = RespProcessingError
        /\ ReleaseFailedLog \notin d1.logged
        /\ d2.lockState = "acquired"
        /\ d2.pc \in {"onEvent", "customHandler", "mark", "unreserve"}
        /\ d2.seen.status = "absent"
        /\ reclaimed[d1.event] = 0

\* The handler that acquired the lock returns its HTTP response in this step.
Responds(d, d2) ==
    /\ d.pc \in DispatchPcs
    /\ d2.pc = "done"
    /\ Becomes(d, d2)

\* C11 as stated: a handler that acquired the lock returns either 200 with the
\* record of its event processed, or 500 with no record of it; the record is
\* never left in processing.
C11_ProcessedOrAbsent ==
    [][\A d \in Running : \A d2 \in BagToSet(deliveries') :
         Responds(d, d2) =>
            \/ /\ d2.response.status = 200
               /\ StatusOf(webhook_events', d.event) = "processed"
            \/ /\ d2.response.status = 500
               /\ StatusOf(webhook_events', d.event) = "absent"]_vars

\* C11 as amended: a handler that acquired the lock answers 200 after
\* markEventProcessed returned, and the record is then processed; it answers
\* 500 after unreserveEvent returned, and the record is then absent (after a
\* reclamation of the lock the record is processed or absent in both cases,
\* never processing).  When markEventProcessed or unreserveEvent throws, the
\* handler answers 500 and the ledger is left as it was: the record stays in
\* processing.
C11_ProcessedOrAbsentUnlessLedgerFails ==
    [][\A d \in Running : \A d2 \in BagToSet(deliveries') :
         Responds(d, d2) =>
            /\ d.lockState = "acquired"
            /\ d2.response \in {RespReceived, RespFinalizeFailed,
                                RespProcessingError}
            /\ d2.response = RespReceived =>
                  /\ StatusOf(webhook_events', d.event) \in {"processed", "absent"}
                  /\ reclaimed[d.event] = 0 =>
                        StatusOf(webhook_events', d.event) = "processed"
            /\ UnreserveReturns(d, d2) =>
                  /\ d2.response = RespProcessingError
                  /\ StatusOf(webhook_events', d.event) \in {"processed", "absent"}
                  /\ reclaimed[d.event] = 0 =>
                        StatusOf(webhook_events', d.event) = "absent"
            /\ (d2.response = RespFinalizeFailed
                \/ ReleaseFailedLog \in d2.logged) =>
                  /\ webhook_events' = webhook_events
                  /\ reclaimed[d.event] = 0 =>
                        StatusOf(webhook_events', d.event) = "processing"]_vars

\* A handler answered 500 because markEventProcessed threw, and the record of
\* its event is still in processing with no handler left to release it.
C11_Witness ==
    \E d \in Running :
        /\ d.response = RespFinalizeFailed
        /\ StatusOf(webhook_events, d.event) = "processing"
        /\ InFlight(d.event) = 0
        /\ reclaimed[d.event] = 0

Rejections ==
    {RespNoAuthKey, RespUnauthorized, RespInvalidJson, RespInvalidPayload}

\* C12: a request is answered 500 when no webhook auth key is configured,
\* else 401 when its Authorization header is not "Bearer <key>", else 400 when
\* its body is not JSON, else 400 when its event lacks a string id, a string
\* type or a numeric timestamp, in this order; a request rejected at one of
\* these steps creates no ledger record and has no side effect.
C12_IngressOrder ==
    /\ [](\A d \in Running :
            d.response \in Rejections =>
               /\ d.pc = "done" /\ d.lockState = "none"
               /\ d.effects = <<>> /\ d.done = {})
    /\ [][\A e \in DOMAIN payload : \A req \in AnyRequests(e) :
            (Received(e, req) \in BagToSet(deliveries') /\ Posted(e, req)) =>
               LET d2 == Received(e, req)
                   keySet == req.authKey # ""
                   authorized == req.authHeader = <<"Bearer", req.authKey>>
                   wellFormed == /\ req.body.hasEvent
                                 /\ req.body.id.typeof = "string"
                                 /\ req.body.type.typeof = "string"
                                 /\ req.body.event_timestamp_ms.typeof = "number"
               IN  /\ d2.response =
                        (IF ~keySet THEN
                            [status |-> 500,
                             body |-> "Webhook auth key not configured",
                             retryAfter |-> ""]
                         ELSE IF ~authorized THEN
                            [status |-> 401, body |-> "Unauthorized",
                             retryAfter |-> ""]
                         ELSE IF ~req.body.json THEN
                            [status |-> 400, body |-> "Invalid JSON",
                             retryAfter |-> ""]
                         ELSE IF ~wellFormed THEN
                            [status |-> 400, body |-> "Invalid webhook payload",
                             retryAfter |-> ""]
                         ELSE NoResponse)
                   /\ d2.response # NoResponse =>
                         /\ d2.pc = "done"
                         /\ d2.effects = <<>>
                         /\ webhook_events' = webhook_events
                   /\ d2.response = NoResponse => d2.pc = "check"]_vars

\* A request without configured key and a request with a malformed event were
\* both rejected, and the ledger is empty.
C12_Witness ==
    \E d1 \in Running, d2 \in Running :
        /\ d1.response = RespNoAuthKey
        /\ d2.response = RespInvalidPayload
        /\ webhook_events = {}

\* C13 as stated: an event whose id or type is the empty string is rejected
\* with 400 before the ledger is touched, so that no handler goes on with an
\* empty event id and no ledger record has one.
C13_EmptyIdRejected ==
    /\ \A d \in Running : d.event # EmptyId
    /\ \A r \in webhook_events :
         r.revenuecatEventId # EmptyId /\ r.eventType # ""

\* The hooks invoked so far by invocation d, in order.
HooksCalled(d) == SelectSeq(d.effects, LAMBDA x : x[1] \in HookOps)

HasPerTypeHook(d) == payload[d.event].type \in config.events

\* C14 as stated: the built-in effect runs first, then the per-event-type
\* hook, then the catch-all hook onEvent.
C14_PerTypeHookBeforeCatchAll ==
    \A d \in Running :
        /\ (d.pc \in {"onEvent", "customHandler"} \/ HooksCalled(d) # <<>>)
              => "processEvent" \in d.done
        /\ (d.pc = "onEvent" \/ "onEvent" \in d.done) =>
              (HasPerTypeHook(d) => "customHandler" \in d.done)

\* C14 as amended: the built-in effect runs first, then the catch-all hook
\* onEvent, then the per-event-type hook; each hook is invoked only after the
\* stage before it returned normally.
C14_CatchAllBeforePerTypeHook ==
    \A d \in Running :
        /\ (d.pc \in {"onEvent", "customHandler"} \/ HooksCalled(d) # <<>>)
              => "processEvent" \in d.done
        /\ (d.pc = "customHandler" \/ "customHandler" \in d.done) =>
              (config.onEvent => "onEvent" \in d.done)
        /\ d.pc = "onEvent" => HooksCalled(d) = <<>>
        /\ \A i \in 1 .. Len(HooksCalled(d)) :
              HooksCalled(d)[i][1] = "onEvent" => i = 1
        /\ \A i \in 1 .. Len(HooksCalled(d)) :
              HooksCalled(d)[i][1] = "customHandler" =>
                 i = (IF config.onEvent THEN 2 ELSE 1)

\* With both hooks configured an invocation has run the built-in effect, then
\* onEvent, then the per-type handler.
C14_Witness ==
    \E d \in Running :
        /\ d.done = {"processEvent", "onEvent", "customHandler"}
        /\ config.onEvent /\ HasPerTypeHook(d)
        /\ HooksCalled(d) = <<<<"onEvent", payload[d.event].app_user_id>>,
                              <<"customHandler", payload[d.event].app_user_id>>>>

\* The entitlement rows of user u hold exactly the entries of list E, stamped
\* ts.
RowsAre(u, E, ts) ==
    /\ Cardinality(ByUser(entitlements, u)) = Len(E)
    /\ \A r \in ByUser(entitlements, u) :
          /\ r.lastSyncedAt = ts
          /\ r.gracePeriodExpiresDate = NoDate
          /\ \E i \in 1 .. Len(E) :
                /\ r.entitlementId = E[i].entitlementId
                /\ r.isActive = E[i].isActive
                /\ r.expiresDate = E[i].expiresDate
    /\ \A i \in 1 .. Len(E) :
          \E r \in ByUser(entitlements, u) :
             /\ r.entitlementId = E[i].entitlementId
             /\ r.isActive = E[i].isActive
             /\ r.expiresDate = E[i].expiresDate

\* C15: after syncSubscriberAndEntitlements(u, ts, snapshot, E) the entitlement
\* rows of u are exactly the entries of E, each stamped ts, and the one
\* subscriber record of u holds ts and snapshot, whatever rows existed before;
\* a sync with the empty list leaves u no entitlement row.
C15_SyncReplacesWholesale ==
    lastCall.op = "syncSubscriberAndEntitlements" =>
       LET u == lastCall.user
           ts == lastCall.args[1]
           snapshot == lastCall.args[2]
           E == lastCall.args[3]
       IN  /\ RowsAre(u, E, ts)
           /\ E = <<>> => ByUser(entitlements, u) = {}
           /\ Cardinality(ByUser(subscribers, u)) = 1
           /\ \A sub \in ByUser(subscribers, u) :
                 sub.lastSyncedAt = ts /\ sub.rawSubscriber = snapshot

\* A user was synced with one active entitlement that expires in the future,
\* then with the empty list, which deleted that row: the user has no row.
C15_Witness ==
    /\ lastCall.op = "syncSubscriberAndEntitlements"
    /\ lastCall.args[3] = <<>>
    /\ lastCall.deleted = 1
    /\ ByUser(entitlements, lastCall.user) = {}
    /\ \E sub \in ByUser(subscribers, lastCall.user) :
          sub.rawSubscriber = "snapshot"

ResyncOps == {"syncSubscriber", "pollForEntitlement", "fullResync"}

\* C16: a resync (syncSubscriber, a poll iteration, the webhook's fullResync)
\* of a customer for whom upstream answers 404 does not throw, deletes every
\* entitlement row of that user and no other row, leaves the subscribers
\* table as it was, and syncSubscriber returns an empty entitlement list.
C16_NotFoundClearsEntitlements ==
    [][(lastCall'.op \in ResyncOps /\ lastCall'.upstream = "404"
        /\ lastCall'.requests # <<>>) =>
          /\ ~lastCall'.threw
          /\ lastCall'.requests = <<<<"GET customer", lastCall'.user>>>>
          /\ entitlements' = entitlements \ ByUser(entitlements, lastCall'.user)
          /\ ByUser(entitlements', lastCall'.user) = {}
          /\ subscribers' = subscribers
          /\ virtual_currency_balances' = virtual_currency_balances
          /\ lastCall'.op = "syncSubscriber" => lastCall'.returned = <<>>
          /\ lastCall'.op = "pollForEntitlement" =>
                lastCall'.returned = <<FALSE>>]_vars

\* syncSubscriber got a 404 for a user who had a subscriber record and
\* entitlement rows: the rows are gone, the record is still there.
C16_Witness ==
    /\ lastCall.op = "syncSubscriber"
    /\ lastCall.upstream = "404"
    /\ ~lastCall.threw
    /\ lastCall.deleted >= 1
    /\ ByUser(entitlements, lastCall.user) = {}
    /\ ByUser(subscribers, lastCall.user) # {}

\* The derived-state rule: stored isActive is true and the expiry date is
\* missing, or strictly in the future, or the grace period ends strictly in
\* the future.
ActiveByRule(r, t) ==
    /\ r.isActive
    /\ \/ r.expiresDate.kind \in {"undefined", "empty"}
       \/ r.expiresDate.kind = "iso" /\ r.expiresDate.ms > t
       \/ r.gracePeriodExpiresDate.kind = "iso"
          /\ r.gracePeriodExpiresDate.ms > t

\* The stored row a hasActiveEntitlement call is about.
RowsOf(u, id) ==
    {r \in entitlements : r.appUserId = u /\ r.entitlementId = id}

\* C17 as stated: hasActiveEntitlement returns true for a stored row, and
\* getActiveEntitlements includes it, if and only if the row is active by the
\* derived-state rule, for every isActive, expiresDate, gracePeriodExpiresDate
\* and current time.
C17_ActiveIffRule ==
    [][/\ lastCall'.op = "hasActiveEntitlement" =>
             \A r \in RowsOf(lastCall'.user, lastCall'.args[1]) :
                lastCall'.returned = <<ActiveByRule(r, now')>>
       /\ lastCall'.op = "getActiveEntitlements" =>
             \A r \in ByUser(entitlements, lastCall'.user) :
                (Fields(r) \in lastCall'.returned[1]) <=> ActiveByRule(r, now')
      ]_<<lastCall, entitlements>>

\* C18: a stored row with isActive true and expiresDate in the past is active,
\* for hasActiveEntitlement and for getActiveEntitlements, when its
\* gracePeriodExpiresDate is strictly in the future, and inactive when it has
\* no gracePeriodExpiresDate.
C18_GracePeriodKeepsActive ==
    [][\A r \in ByUser(entitlements, lastCall'.user) :
         (/\ r.isActive
          /\ r.expiresDate.kind = "iso" /\ r.expiresDate.ms < now'
          /\ \/ r.gracePeriodExpiresDate = NoDate
             \/ /\ r.gracePeriodExpiresDate.kind = "iso"
                /\ r.gracePeriodExpiresDate.ms > now') =>
            LET active == r.gracePeriodExpiresDate # NoDate
            IN  /\ (lastCall'.op = "hasActiveEntitlement"
                    /\ r.entitlementId = lastCall'.args[1]) =>
                      lastCall'.returned = <<active>>
                /\ lastCall'.op = "getActiveEntitlements" =>
                      ((Fields(r) \in lastCall'.returned[1]) <=> active)
      ]_<<lastCall, entitlements>>

\* hasActiveEntitlement returned true for a row with isActive true whose
\* expiry is past and whose grace period is not.
C18_Witness ==
    /\ lastCall.op = "hasActiveEntitlement"
    /\ lastCall.returned = <<TRUE>>
    /\ \E r \in RowsOf(lastCall.user, lastCall.args[1]) :
          /\ r.isActive
          /\ r.expiresDate.kind = "iso" /\ r.expiresDate.ms < now
          /\ r.gracePeriodExpiresDate.kind = "iso"
          /\ r.gracePeriodExpiresDate.ms > now

\* A currency code of white space only, and an amount that is a finite number
\* above zero.
Blank(code) == \A i \in 1 .. Len(code) : code[i] = Space
SpendableAmount(a) == a.typeof = "number" /\ a.str = "" /\ a.num > 0

\* The adjustments a spend has to reject.
RejectedByRule(adjustments) ==
    \/ adjustments = <<>>
    \/ \E i \in 1 .. Len(adjustments) :
          Blank(adjustments[i][1]) \/ ~SpendableAmount(adjustments[i][2])

\* C19: spendVirtualCurrency throws on adjustments that are empty, have a code
\* that is blank after trimming, or have an amount that is not a finite number
\* above zero; it then issues no upstream request and leaves the cache tables
\* as they were.
C19_RejectedSpendDoesNothing ==
    [][(lastCall'.op = "spendVirtualCurrency"
        /\ RejectedByRule(lastCall'.args[1])) =>
          /\ lastCall'.threw
          /\ lastCall'.requests = <<>>
          /\ UNCHANGED <<subscribers, entitlements, virtual_currency_balances>>
      ]_<<lastCall, virtual_currency_balances>>

\* A spend of {GLD: 0} on a configured instance was rejected without a request
\* while the cache holds balances.
C19_Witness ==
    /\ lastCall.op = "spendVirtualCurrency"
    /\ lastCall.args[1] = <<<<Code("GLD"), Num(0)>>>>
    /\ lastCall.args[3] = <<"key", "proj">>
    /\ lastCall.threw
    /\ lastCall.requests = <<>>
    /\ virtual_currency_balances # {}

\* A spend of accepted adjustments on an instance that has its credentials.
AcceptedSpend(call) ==
    /\ call.op = "spendVirtualCurrency"
    /\ call.args[3] = <<"key", "proj">>
    /\ ~RejectedByRule(call.args[1])

\* A code without the white space around it.
Stripped(code) ==
    LET inked == {i \in 1 .. Len(code) : code[i] # Space}
    IN  IF inked = {} THEN <<>>
        ELSE SubSeq(code, CHOOSE i \in inked : \A j \in inked : i <= j,
                    CHOOSE i \in inked : \A j \in inked : i >= j)

\* C20 as stated: an accepted spend submits one transaction request whose
\* adjustments have the caller's currency codes and, for each code, the
\* negation of the caller's amount.
C20_SameCodesNegated ==
    [][AcceptedSpend(lastCall') =>
          LET given == lastCall'.args[1]
          IN  /\ Len(lastCall'.requests) = 1
              /\ DOMAIN lastCall'.requests[1].adjustments =
                     {given[i][1] : i \in 1 .. Len(given)}
              /\ \A i \in 1 .. Len(given) :
                    lastCall'.requests[1].adjustments[given[i][1]] =
                        Num(0 - given[i][2].num)
      ]_lastCall

\* C20: an accepted spend submits one transaction request whose adjustments
\* have the caller's currency codes without the white space around them and,
\* for each such code, the negation of the amount of the last entry of the
\* caller that has this code.
C20_TrimmedCodesNegated ==
    [][AcceptedSpend(lastCall') =>
          LET given == lastCall'.args[1]
              sent == lastCall'.requests[1].adjustments
              Last(code) ==
                  CHOOSE i \in 1 .. Len(given) :
                      /\ Stripped(given[i][1]) = code
                      /\ \A j \in 1 .. Len(given) :
                            Stripped(given[j][1]) = code => j <= i
          IN  /\ Len(lastCall'.requests) = 1
              /\ lastCall'.requests[1].method = "POST"
              /\ lastCall'.requests[1].customer = lastCall'.user
              /\ DOMAIN sent = {Stripped(given[i][1]) : i \in 1 .. Len(given)}
              /\ \A code \in DOMAIN sent :
                    sent[code] = Num(0 - given[Last(code)][2].num)
      ]_lastCall

\* {GLD: 20, SLV: 10} was submitted in one request as {GLD: -20, SLV: -10}.
C20_Witness ==
    /\ lastCall.op = "spendVirtualCurrency"
    /\ lastCall.args[1] = <<<<Code("GLD"), Num(20)>>, <<Code("SLV"), Num(10)>>>>
    /\ Len(lastCall.requests) = 1
    /\ lastCall.requests[1].adjustments =
           (Code("GLD") :> Num(0 - 20)) @@ (Code("SLV") :> Num(0 - 10))

\* The balance rows of user u, without _id.
BalancesOf(table, u) == {Fields(r) : r \in ByUser(table, u)}

\* The items of an upstream answer that are balances: a string code with a
\* finite number.
ListedBalances(items) ==
    IF items = NoItems THEN {}
    ELSE {i \in 1 .. Len(items) :
             /\ items[i].currency_code.typeof = "string"
             /\ items[i].balance.typeof = "number"
             /\ items[i].balance.str = ""}

\* C21: an accepted spend on a configured instance issues exactly one upstream
\* request, the transaction; on a success answer it does not throw and the
\* user's balance rows become exactly the balances of that answer, on a
\* non-success answer it throws and the balance rows are unchanged; the rows of
\* other users stay in both cases.
C21_SpendWritesAnsweredBalances ==
    [][AcceptedSpend(lastCall') =>
          LET u == lastCall'.user
              answer == lastCall'.args[4]
          IN  /\ Len(lastCall'.requests) = 1
              /\ lastCall'.requests[1].path = "virtual_currencies/transactions"
              /\ \A v \in Users \ {u} :
                    ByUser(virtual_currency_balances', v) =
                        ByUser(virtual_currency_balances, v)
              /\ answer.ok =>
                    /\ ~lastCall'.threw
                    /\ BalancesOf(virtual_currency_balances', u) =
                         {[appUserId |-> u,
                           currencyCode |-> answer.items[i].currency_code.str,
                           balance |-> answer.items[i].balance.num,
                           lastSyncedAt |-> now'] :
                              i \in ListedBalances(answer.items)}
                    /\ Cardinality(ByUser(virtual_currency_balances', u)) =
                         Cardinality(ListedBalances(answer.items))
              /\ ~answer.ok =>
                    /\ lastCall'.threw
                    /\ virtual_currency_balances' = virtual_currency_balances
      ]_<<lastCall, virtual_currency_balances>>

\* An accepted spend was answered with the balance GLD 70 and an item that is
\* no balance, and the user's rows are the one balance.
C21_Witness ==
    /\ AcceptedSpend(lastCall)
    /\ ~lastCall.threw
    /\ Len(lastCall.requests) = 1
    /\ Len(lastCall.args[4].items) = 2
    /\ BalancesOf(virtual_currency_balances, lastCall.user) =
         {[appUserId |-> lastCall.user, currencyCode |-> "GLD", balance |-> 70,
           lastSyncedAt |-> now]}

\* The effects of invocation d that are of the operations ops.
EffectsOf(d, ops) == SelectSeq(d.effects, LAMBDA x : x[1] \in ops)

\* Invocation d has run one full resync of user u and nothing else: one GET
\* customer of u, followed (after the listing of the entitlement definitions)
\* by one mutation on the entitlements of u.
OneFullResync(d, u) ==
    /\ EffectsOf(d, {"GET customer"}) = <<<<"GET customer", u>>>>
    /\ d.effects[1] = <<"GET customer", u>>
    /\ EffectsOf(d, CacheOps) \in {<<<<"clearEntitlements", u>>>>,
                                   <<<<"syncSubscriberAndEntitlements", u>>>>}
    /\ \A i \in 1 .. Len(d.effects) : d.effects[i][2] \in {u, NoUser}

\* The dispatch of an entitlement-affecting event by invocation d: with
\* credentials and app_user_id it makes one full resync of that user, which
\* succeeds or fails on the GET customer request; without app_user_id it fails
\* with no request and no cache write.
EntitlementDispatch(d) ==
    LET u == payload[d.event].app_user_id
    IN  /\ d.pc \in {"processEvent", "check"} => d.effects = <<>>
        /\ d.pc = "mark" => u # NoUser /\ OneFullResync(d, u)
        /\ d.pc = "unreserve" =>
              /\ EffectsOf(d, CacheOps) = <<>>
              /\ d.effects \in {<<>>, <<<<"GET customer", u>>>>}
              /\ u = NoUser => d.effects = <<>>

\* C22 as stated: an entitlement-affecting event of any of the 13 types makes
\* exactly one full resync of its app_user_id; without app_user_id the dispatch
\* fails, nothing is written to the cache, the lock is released and the
\* response is 500.
C22_ResyncOrReleasedLock ==
    /\ [](\A d \in Running :
            d.event \in DOMAIN payload => EntitlementDispatch(d))
    /\ [][\A d \in Running : \A d2 \in BagToSet(deliveries') :
            (CatchEnds(d, d2) /\ payload[d.event].app_user_id = NoUser) =>
               /\ d2.response.status = 500
               /\ StatusOf(webhook_events', d.event) = "absent"]_vars

\* C22 as amended: as stated, except that without app_user_id the handler
\* calls unreserveEvent and responds 500, and the lock is released when
\* unreserveEvent does not throw; when it throws the record stays in
\* processing.
C22_ResyncOrUnreserve ==
    /\ [](\A d \in Running :
            d.event \in DOMAIN payload => EntitlementDispatch(d))
    /\ [](\A d \in Running :
            (d.event \in DOMAIN payload /\ d.pc = "mark") =>
                "processEvent" \in d.done)
    /\ [][\A d \in Running : \A d2 \in BagToSet(deliveries') :
            /\ (d.pc = "processEvent" /\ Becomes(d, d2) /\ d2 # d
                /\ payload[d.event].app_user_id = NoUser) =>
                  d2.pc = "unreserve"
            /\ CatchEnds(d, d2) =>
                  /\ d2.response = RespProcessingError
                  /\ UnreserveReturns(d, d2) =>
                        StatusOf(webhook_events', d.event) = "absent"
                  /\ ~UnreserveReturns(d, d2) =>
                        webhook_events' = webhook_events]_vars

\* An event without app_user_id was dispatched by the handler that acquired
\* its lock, which answered 500 and left no record.
C22_Witness ==
    \E d \in Running :
        /\ d.event \in DOMAIN payload
        /\ payload[d.event].type = "REFUND_REVERSED"
        /\ payload[d.event].app_user_id = NoUser
        /\ d.lockState = "acquired"
        /\ d.response = RespProcessingError
        /\ StatusOf(webhook_events, d.event) = "absent"

\* An event with app_user_id u1 has made its one resync of u1.
C22_ResyncedOnce ==
    \E d \in Running :
        /\ d.event \in DOMAIN payload
        /\ payload[d.event].type = "REFUND_REVERSED"
        /\ d.pc = "mark"
        /\ OneFullResync(d, "u1")
        /\ Len(d.effects) = 3

\* The elements of a sequence.
Range(seq) == {seq[i] : i \in 1 .. Len(seq)}

\* The requests of a call that are of operation op.
RequestsOf(call, op) == SelectSeq(call.requests, LAMBDA x : x[1] = op)

\* A dispatch of an event of the types on a deployment with credentials.
DispatchOf(call, types) ==
    /\ call.op = "processEvent"
    /\ call.args[1].type \in types
    /\ call.args[2] = <<"key", "proj">>

\* The users a TRANSFER event names.
Members(ev) ==
    ({ev.app_user_id} \cup Range(ev.transferred_from)
                      \cup Range(ev.transferred_to)) \ {NoUser}

\* The lookup keys of the definitions upstream lists on the pages it serves.
ListedKeys(definitions) ==
    {<<definitions[i].items[j].id, definitions[i].items[j].lookup_key>> :
        i \in {k \in 1 .. Len(definitions) : definitions[k].ok},
        j \in 1 .. 2}

\* C23: a TRANSFER event lists the entitlement definitions once, before any
\* customer is fetched, and resyncs each user of the deduplicated set
\* {app_user_id} + transferred_from + transferred_to exactly once and no other
\* user, writing the entitlements of each user found under the lookup keys of
\* that one listing; a resync that throws ends the dispatch.
C23_TransferResyncsEachOnce ==
    [][DispatchOf(lastCall', {"TRANSFER"}) =>
          LET ev == lastCall'.args[1]
              up == lastCall'.args[3]
              fetched == RequestsOf(lastCall', "GET customer")
              keys == ListedKeys(up.definitions)
          IN  /\ Len(RequestsOf(lastCall', "GET entitlements")) = 1
              /\ lastCall'.requests[1][1] = "GET entitlements"
              /\ \A i, j \in 1 .. Len(fetched) :
                    fetched[i] = fetched[j] => i = j
              /\ {fetched[i][2] : i \in 1 .. Len(fetched)} \subseteq Members(ev)
              /\ ~lastCall'.threw =>
                    /\ Len(fetched) = Cardinality(Members(ev))
                    /\ \A u \in Members(ev) :
                          {r.entitlementId : r \in ByUser(entitlements', u)} =
                             IF up.customers[u].status = "404" THEN {}
                             ELSE {Resolve(keys, i.entitlement_id) :
                                      i \in Range(up.customers[u].items) \cup
                                            UNION {Range(up.customers[u].pages[k].items) :
                                                      k \in 1 .. Len(up.customers[u].pages)}}
                    /\ \A u \in Users \ Members(ev) :
                          ByUser(entitlements', u) = ByUser(entitlements, u)
              /\ lastCall'.threw =>
                    up.customers[fetched[Len(fetched)][2]].status = "error"
      ]_lastCall

\* The TRANSFER of u1 from [u1] to [u2] listed the definitions once and fetched
\* u1 and u2, once each.
C23_Witness ==
    /\ DispatchOf(lastCall, {"TRANSFER"})
    /\ lastCall.args[1] = SampleEvent("TRANSFER", "u1", <<"u1">>, <<"u2">>)
    /\ ~lastCall.threw
    /\ RequestsOf(lastCall, "GET entitlements") = <<<<"GET entitlements", NoUser>>>>
    /\ RequestsOf(lastCall, "GET customer") =
           <<<<"GET customer", "u1">>, <<"GET customer", "u2">>>>
    /\ \A u \in Users : ByUser(entitlements, u) # {}

\* C24: a VIRTUAL_CURRENCY_TRANSACTION event of a user makes one request, for
\* the balances of that user; when upstream answers with a list, the user's
\* balance rows become exactly the balances listed, one row each, stamped with
\* the time of the dispatch, and rows of currencies not listed are gone; the
\* subscribers and entitlements tables and the balances of other users are
\* left as they were.  When upstream answers with an error, or the event has
\* no app_user_id, the dispatch fails and no table is written; without
\* app_user_id no request is made either.
C24_CurrencyEventReplacesBalances ==
    [][DispatchOf(lastCall', {"VIRTUAL_CURRENCY_TRANSACTION"}) =>
          LET u == lastCall'.args[1].app_user_id
              answer == lastCall'.args[3].answer
          IN  /\ subscribers' = subscribers
              /\ entitlements' = entitlements
              /\ \A v \in Users \ {u} :
                    ByUser(virtual_currency_balances', v) =
                        ByUser(virtual_currency_balances, v)
              /\ u = NoUser =>
                    /\ lastCall'.threw
                    /\ lastCall'.requests = <<>>
                    /\ virtual_currency_balances' = virtual_currency_balances
              /\ u # NoUser =>
                    /\ lastCall'.requests = <<<<"GET virtual_currencies", u>>>>
                    /\ lastCall'.threw = ~answer.ok
                    /\ ~answer.ok =>
                          virtual_currency_balances' = virtual_currency_balances
                    /\ answer.ok =>
                          /\ BalancesOf(virtual_currency_balances', u) =
                               {[appUserId |-> u,
                                 currencyCode |-> answer.items[i].currency_code.str,
                                 balance |-> answer.items[i].balance.num,
                                 lastSyncedAt |-> now'] :
                                    i \in ListedBalances(answer.items)}
                          /\ Cardinality(ByUser(virtual_currency_balances', u)) =
                               Cardinality(ListedBalances(answer.items))
      ]_lastCall

\* A currency event of u1 found the balances GLD and GEM and entitlements of
\* u1 in the cache; upstream listed GLD 80, which is now the only balance row of
\* u1, while the entitlements of u1 and the balances of u2 are still there.
C24_Witness ==
    /\ DispatchOf(lastCall, {"VIRTUAL_CURRENCY_TRANSACTION"})
    /\ ~lastCall.threw
    /\ BalancesOf(virtual_currency_balances, "u1") =
         {[appUserId |-> "u1", currencyCode |-> "GLD", balance |-> 80,
           lastSyncedAt |-> now]}
    /\ now = Tick
    /\ Cardinality(ByUser(entitlements, "u1")) = 2
    /\ Cardinality(ByUser(virtual_currency_balances, "u2")) = 2

\* The built-in stage of invocation d ends in this step, as d2.
BuiltInEnds(d, d2) ==
    /\ d.pc = "processEvent"
    /\ d2.pc # "processEvent"
    /\ Becomes(d, d2)

\* The built-in effect of an informational or unknown event: it returns
\* without a request or a mutation, and the handler goes on to the hooks or to
\* markEventProcessed; the catch block is entered after a hook only.
NoSyncDispatch ==
    /\ [](\A d \in Running :
            d.event \in DOMAIN payload =>
               /\ EffectsOf(d, UpstreamOps \cup CacheOps) = <<>>
               /\ d.pc = "unreserve" =>
                     /\ "processEvent" \in d.done
                     /\ config.onEvent \/ HasPerTypeHook(d))
    /\ [][/\ UNCHANGED <<subscribers, entitlements, virtual_currency_balances>>
          /\ \A d \in Running : \A d2 \in BagToSet(deliveries') :
               BuiltInEnds(d, d2) =>
                  /\ "processEvent" \in d2.done
                  /\ d2.effects = <<>>
                  /\ d2.pc \in {"onEvent", "customHandler", "mark"}]_vars

\* C25 as stated: for an informational or unrecognized event the first
\* delivery, when no hook throws, makes no upstream call and no cache write,
\* responds 200 {received:true} and leaves the record processed, with or
\* without API key and project id.
C25_NoSyncAcknowledged ==
    /\ NoSyncDispatch
    /\ [][\A d \in Running : \A d2 \in BagToSet(deliveries') :
            (Responds(d, d2) /\ d.pc = "mark" /\ d.seen.status = "absent") =>
               /\ d2.response = RespReceived
               /\ StatusOf(webhook_events', d.event) = "processed"]_vars

\* C25 as amended: as stated when markEventProcessed returns: the response is
\* then 200 {received:true} and the record processed (unless the lock had been
\* reclaimed after the TTL and released meanwhile).  When markEventProcessed
\* throws the response is 500 and the record stays as it was.
C25_NoSyncAcknowledgedUnlessLedgerFails ==
    /\ NoSyncDispatch
    /\ [][\A d \in Running : \A d2 \in BagToSet(deliveries') :
            (Responds(d, d2) /\ d.pc = "mark" /\ d.seen.status = "absent") =>
               /\ d2.response \in {RespReceived, RespFinalizeFailed}
               /\ MarkReturns(d, d2) =>
                     /\ StatusOf(webhook_events', d.event) \in
                            {"processed", "absent"}
                     /\ reclaimed[d.event] = 0 =>
                           StatusOf(webhook_events', d.event) = "processed"
               /\ d2.response = RespFinalizeFailed =>
                     webhook_events' = webhook_events]_vars

\* The first delivery of an EXPERIMENT_ENROLLMENT event was answered 200 and
\* its record is processed, in a deployment without hooks.
C25_Witness ==
    \E d \in Running :
        /\ d.event \in DOMAIN payload
        /\ payload[d.event].type = "EXPERIMENT_ENROLLMENT"
        /\ d.lockState = "acquired"
        /\ d.response = RespReceived
        /\ StatusOf(webhook_events, d.event) = "processed"
        /\ completed[d.event] = 1
        /\ reclaimed[d.event] = 0

\* The resyncs a poll has run: each syncSubscriber call starts with one GET
\* customer.
Resyncs(poll) == Len(RequestsOf(poll, "GET customer"))

\* The waits a poll has made.
Waits(poll) == Len(RequestsOf(poll, "setTimeout"))

\* The entitlement rows of user u hold entitlement id as active.
HoldsActive(table, u, id) ==
    \E r \in ByUser(table, u) : r.entitlementId = id /\ r.isActive

\* C26: a pollForEntitlement call with maxAttempts = N >= 1 runs its resyncs of
\* the user one after another, attempt k being the k-th resync; the attempt
\* whose resync leaves the requested entitlement active returns
\* {found:true, attempts:k} at once, an attempt k < N that does not goes on to
\* the next, and attempt N that does not returns {found:false, attempts:N}; a
\* poll that returned found has run exactly attempts resyncs, one that
\* returned not found exactly N.
C26_PollReturnsAtFirstMatch ==
    /\ [](lastCall.op = "pollForEntitlement" /\ lastCall.args[2] >= 1 =>
            LET N == lastCall.args[2]
            IN  /\ lastCall.attempt \in 1 .. N
                /\ Resyncs(lastCall) =
                       IF lastCall.pc = "sync" THEN lastCall.attempt - 1
                       ELSE lastCall.attempt
                /\ (lastCall.pc = "returned" /\ ~lastCall.threw) =>
                      /\ lastCall.returned[1].found =>
                            lastCall.returned[1].attempts = Resyncs(lastCall)
                      /\ ~lastCall.returned[1].found =>
                            /\ lastCall.returned[1].attempts = N
                            /\ Resyncs(lastCall) = N
                /\ lastCall.pc # "returned" => lastCall.returned = <<>>)
    /\ [][(lastCall.op = "pollForEntitlement" /\ lastCall.pc = "sync"
           /\ lastCall'.pc # "sync" /\ ~lastCall'.threw) =>
             LET N == lastCall.args[2]
                 k == lastCall.attempt
                 hit == HoldsActive(entitlements', lastCall.user,
                                    lastCall.args[1])
             IN  /\ Resyncs(lastCall') = k
                 /\ hit => lastCall'.returned = Returned(TRUE, k)
                 /\ (~hit /\ k < N) =>
                       lastCall'.pc = "wait" /\ lastCall'.returned = <<>>
                 /\ (~hit /\ k = N) =>
                       lastCall'.returned = Returned(FALSE, N)]_vars

\* A poll for premium with maxAttempts 3 found it at its second resync and
\* returned {found:true, attempts:2}.
C26_Witness ==
    /\ lastCall.op = "pollForEntitlement"
    /\ lastCall.args[1] = "premium" /\ lastCall.args[2] = 3
    /\ lastCall.returned = Returned(TRUE, 2)
    /\ Resyncs(lastCall) = 2
    /\ HoldsActive(entitlements, lastCall.user, "premium")

\* C27: pollForEntitlement waits intervalMs (3000 when not given) once between
\* two consecutive attempts and never after the attempt on which it ends: a
\* poll that has ended after k attempts has waited k - 1 times, and the last
\* thing it did is not a wait.
C27_WaitsBetweenAttemptsOnly ==
    (lastCall.op = "pollForEntitlement" /\ lastCall.args[2] >= 1) =>
        LET made == lastCall.requests
            interval == IF lastCall.args[3] = NoArg THEN 3000
                        ELSE lastCall.args[3]
        IN  /\ \A i \in 1 .. Len(made) :
                  made[i][1] = "setTimeout" =>
                     /\ made[i] = <<"setTimeout", interval>>
                     /\ i > 1 /\ made[i - 1][1] # "setTimeout"
                     /\ i < Len(made) => made[i + 1][1] = "GET customer"
            /\ \A i \in 2 .. Len(made) :
                  made[i][1] = "GET customer" => made[i - 1][1] = "setTimeout"
            /\ lastCall.pc = "returned" =>
                  /\ Waits(lastCall) = Resyncs(lastCall) - 1
                  /\ made[Len(made)][1] # "setTimeout"

\* A poll with maxAttempts 3 and no intervalMs ended without a match after
\* three attempts and two waits of 3000 ms.
C27_Witness ==
    /\ lastCall.op = "pollForEntitlement"
    /\ lastCall.args[2] = 3 /\ lastCall.args[3] = NoArg
    /\ lastCall.returned = Returned(FALSE, 3)
    /\ Resyncs(lastCall) = 3
    /\ RequestsOf(lastCall, "setTimeout") = <<Timeout(3000), Timeout(3000)>>

\* The API key and project id of the instance a recorded call ran on.
CredentialsOf(call) ==
    CASE call.op = "syncSubscriber" -> <<call.args[1], call.args[2]>>
      [] call.op = "syncVirtualCurrencyBalances" -> call.args[1]
      [] call.op = "spendVirtualCurrency" -> call.args[3]
      [] call.op = "processEvent" -> call.args[2]

\* The calls that need the credentials: the three client calls, and the
\* dispatch of an event that resyncs entitlements or balances.
NeedsCredentials(call) ==
    \/ call.op \in {"syncSubscriber", "syncVirtualCurrencyBalances",
                    "spendVirtualCurrency"}
    \/ /\ call.op = "processEvent"
       /\ call.args[1].type \in EntitlementEventTypes
                                \cup {"TRANSFER", "VIRTUAL_CURRENCY_TRANSACTION"}

\* C28: with the API key or the project id unset, syncSubscriber,
\* syncVirtualCurrencyBalances, spendVirtualCurrency and the dispatch of an
\* entitlement-affecting, TRANSFER or VIRTUAL_CURRENCY_TRANSACTION event throw
\* without having issued an upstream request and leave the three cache tables
\* as they were.
C28_UnsetCredentialsFailFirst ==
    [][(lastCall.op = NoCall.op /\ lastCall'.op # NoCall.op
        /\ NeedsCredentials(lastCall')
        /\ (CredentialsOf(lastCall')[1] = "" \/ CredentialsOf(lastCall')[2] = ""))
       => /\ lastCall'.threw
          /\ lastCall'.requests = <<>>
          /\ UNCHANGED <<subscribers, entitlements,
                         virtual_currency_balances>>]_vars

\* A spend of 20 GLD on an instance without project id threw before any
\* request, over a cache holding balances and entitlements.
C28_Witness ==
    /\ lastCall.op = "spendVirtualCurrency"
    /\ lastCall.args[1] = <<<<Code("GLD"), Num(20)>>>>
    /\ lastCall.args[3] = <<"key", "">>
    /\ lastCall.threw /\ lastCall.requests = <<>>
    /\ virtual_currency_balances # {} /\ entitlements # {}

\* C29: the ledger never holds two webhook_events documents with the same
\* revenuecatEventId, however the checkAndRecordEvent, markEventProcessed and
\* unreserveEvent mutations of concurrent handler invocations interleave.
C29_OneRecordPerEventId ==
    \A r1 \in webhook_events, r2 \in webhook_events :
        r1.revenuecatEventId = r2.revenuecatEventId => r1 = r2

\* Two invocations are in flight, the sender's event has had an expired lock
\* taken over, and the ledger holds its record.
C29_Witness ==
    /\ BagCardinality(deliveries) >= 2
    /\ \E e \in EventIds :
          /\ reclaimed[e] >= 1
          /\ \E r \in webhook_events : r.revenuecatEventId = e
          /\ \E d \in Running : d.event = e /\ d.lockState = "acquired"

\* C30: the cache never holds two entitlement rows of the same user with the
\* same entitlementId, after any sequence of resyncs, upstream listing one
\* entitlement once or on two pages.
C30_OneRowPerEntitlement ==
    \A r1 \in entitlements, r2 \in entitlements :
        (r1.appUserId = r2.appUserId /\ r1.entitlementId = r2.entitlementId)
            => r1 = r2

\* The rows of the three cache tables that belong to user v.
RowsOfUser(subs, ents, balances, v) ==
    <<ByUser(subs, v), ByUser(ents, v), ByUser(balances, v)>>

\* C31: a resync or a balance sync of user u leaves the subscriber, entitlement
\* and balance rows of every other user as they were, whether it follows a
\* sync of the same or of another user.
C31_OtherUsersUntouched ==
    [][\A v \in Users \ {lastCall'.user} :
          RowsOfUser(subscribers', entitlements', virtual_currency_balances', v)
            = RowsOfUser(subscribers, entitlements, virtual_currency_balances, v)
      ]_vars

\* After a balance sync of u2, a resync of u1 answered 404 deleted the two
\* entitlement rows of u1; u2 still has entitlement and balance rows.
C31_Witness ==
    /\ lastCall.op \in {"syncSubscriber", "fullResync"}
    /\ lastCall.user = "u1" /\ lastCall.upstream = "404"
    /\ lastCall.deleted = 2
    /\ ByUser(entitlements, "u1") = {}
    /\ Cardinality(ByUser(entitlements, "u2")) = 2
    /\ \E r \in ByUser(virtual_currency_balances, "u2") : r.lastSyncedAt = now
    /\ now = Tick

\* The entries upstream lists for a customer, over the first page and every
\* further page.
RECURSIVE AllItems(_)
AllItems(pages) ==
    IF pages = <<>> THEN <<>> ELSE Head(pages).items \o AllItems(Tail(pages))

ListedItems(customer) == customer.items \o AllItems(customer.pages)

\* A page of a listing whose request failed.
SomePageFailed(pages) == \E i \in 1 .. Len(pages) : ~pages[i].ok

\* A resync that got as far as listing: upstream answered GET customer with a
\* customer.
ReachedListing(call) ==
    /\ call.op \in {"syncSubscriber", "fullResync"}
    /\ Len(call.args) = 2
    /\ call.args[1].status = "ok" /\ call.args[1].object = "customer"

\* C32: when the request of a page of the entitlement-definitions listing
\* fails, the resync writes no entitlement row whose entitlementId is a lookup
\* key taken from the pages fetched before the failure.
C32_NoPartialMapApplied ==
    [][(lastCall.op = NoCall.op /\ ReachedListing(lastCall')
        /\ SomePageFailed(lastCall'.args[2]) /\ ~lastCall'.threw) =>
          \A r \in ByUser(entitlements', lastCall'.user) :
              \E i \in 1 .. Len(ListedItems(lastCall'.args[1])) :
                  r.entitlementId
                      = ListedItems(lastCall'.args[1])[i].entitlement_id]_vars

\* Row key names the listed entry: it is its opaque id, or the lookup key a
\* page of the definitions gives for that id.
Names(key, item, definitions) ==
    \/ key = item.entitlement_id
    \/ \E k \in 1 .. Len(definitions) :
          \E d \in Range(definitions[k].items) :
             d.id = item.entitlement_id /\ d.lookup_key = key

\* C33: a resync writes for the user one entitlement row per entry of every
\* page of the customer's active entitlements; when the request of a page
\* fails it throws and leaves the cache as it was, so that the rows are never
\* those of the pages before the failure only.
C33_EveryPageOrNothing ==
    [][(lastCall.op = NoCall.op /\ ReachedListing(lastCall')) =>
          LET customer == lastCall'.args[1]
              listed == ListedItems(customer)
              rows == ByUser(entitlements', lastCall'.user)
          IN  IF SomePageFailed(customer.pages)
              THEN /\ lastCall'.threw
                   /\ UNCHANGED <<subscribers, entitlements>>
              ELSE /\ ~lastCall'.threw
                   /\ Cardinality(rows) = Len(listed)
                   /\ \A i \in 1 .. Len(listed) :
                         \E r \in rows :
                            Names(r.entitlementId, listed[i],
                                  lastCall'.args[2])]_vars

\* Invocation d takes the step that leaves it as d2.
StepOf(d, d2) == d2 # d /\ deliveries' = Put(Take(deliveries, d), d2)

\* C34: an invocation whose markEventProcessed fails after its dispatch
\* answers 500 "Failed to finalize event" and leaves the ledger as it is, the
\* record of the event still processing; a delivery that then finds the
\* processing record is answered 409 while the record is at most 10 minutes
\* old and writes nothing, and once it is older takes the lock over with a
\* fresh processing record and goes on to dispatch the event.
C34_FinalizeFailureKeepsLock ==
    [][\A d \in Running : \A d2 \in BagToSet(deliveries') :
          /\ (d.pc = "mark" /\ StepOf(d, d2) /\ d2.response.status = 500) =>
                /\ d2.response = RespFinalizeFailed
                /\ d2.pc = "done"
                /\ webhook_events' = webhook_events
          /\ (d.pc = "check" /\ StepOf(d, d2) /\ d2.response # RespCheckFailed
              /\ StatusOf(webhook_events, d.event) = "processing") =>
                LET existing == CHOOSE r \in Matching(webhook_events, d.event) :
                                    TRUE
                IN  IF now - existing.processedAt <= LOCK_TTL_MS
                    THEN /\ d2.response = RespRetry /\ d2.pc = "done"
                         /\ webhook_events' = webhook_events
                    ELSE /\ d2.pc = "processEvent"
                         /\ d2.lockState = "acquired"
                         /\ \A r \in Matching(webhook_events', d.event) :
                               r.status = "processing" /\ r.processedAt = now
                         /\ Matching(webhook_events', d.event) # {}]_vars

\* One invocation answered 500 "Failed to finalize event"; more than ten
\* minutes after it took the lock a second delivery of the event found the
\* processing record, took it over and stands before its dispatch.
C34_Witness ==
    \E d \in Running, d2 \in Running :
        /\ d.response = RespFinalizeFailed
        /\ d2.event = d.event
        /\ d2.pc = "processEvent" /\ d2.lockState = "acquired"
        /\ d2.seen.status = "processing" /\ d2.seen.age = "older"
        /\ completed[d.event] >= 1
        /\ reclaimed[d.event] = 1

\* C35: a processing lock does not block its event forever, whether its
\* holder crashed, hangs or still runs: while the sender keeps redelivering
\* and dispatches can succeed, the lock is taken over once it has expired and
\* the record of the event eventually is processed.
C35_LockedEventEventuallyProcessed ==
    \A e \in EventIds :
        (StatusOf(webhook_events, e) = "processing")
            ~> (StatusOf(webhook_events, e) = "processed")

\* The processing record of event e that a take-over of an expired lock
\* inserted: it was inserted beside the record it replaced, so that its _id is
\* not the first of the table.
TakenOver(table, e) ==
    {r \in Matching(table, e) : r.status = "processing" /\ r._id # 0}

\* C36: the markEventProcessed or unreserveEvent call of an invocation that
\* took the lock of an event nobody held does not touch the processing record
\* that another invocation inserted when it took the expired lock over.
C36_OnlyOwnLock ==
    [][\A d \in Running : \A d2 \in BagToSet(deliveries') :
          (/\ d.pc \in {"mark", "unreserve"}
           /\ StepOf(d, d2)
           /\ d.seen.status = "absent"
           /\ TakenOver(webhook_events, d.event) # {})
             => webhook_events' = webhook_events]_vars

\* C37: no event is recorded as processed without a successful dispatch: when
\* a record of the ledger has status processed, a handler of that event id had
\* completed the built-in effect and every configured hook without exception,
\* and no invocation whose dispatch is incomplete is the one that marks.
C37_ProcessedOnlyAfterDispatch ==
    /\ \A e \in EventIds :
         StatusOf(webhook_events, e) = "processed" => completed[e] >= 1
    /\ \A d \in Running :
         d.pc = "mark" => DispatchComplete(d.done, config, payload[d.event].type)

\* A first delivery's dispatch threw and its lock was released; the record of
\* the event is processed after a later delivery's dispatch, hooks included,
\* completed.
C37_Witness ==
    \E d \in Running, d2 \in Running :
        /\ d.response = RespProcessingError
        /\ d2.event = d.event
        /\ d2.response = RespReceived
        /\ config # NoHooks
        /\ completed[d.event] = 1
        /\ StatusOf(webhook_events, d.event) = "processed"

\* The rows of a table without the stamp of their last sync.
Unstamped(rows) ==
    {[f \in (DOMAIN r) \ {"lastSyncedAt"} |-> r[f]] : r \in rows}

\* C38: a full resync is idempotent: the webhook resync of a user run again
\* against the same upstream state leaves the entitlement rows and the
\* subscriber snapshot the first run left, apart from lastSyncedAt.
C38_ResyncTwiceAsOnce ==
    [][(/\ lastCall.op = "fullResync"
        /\ lastCall'.op = "fullResync"
        /\ lastCall'.user = lastCall.user
        /\ lastCall'.args = lastCall.args)
          => /\ Unstamped(entitlements') = Unstamped(entitlements)
             /\ Unstamped(subscribers') = Unstamped(subscribers)]_vars

\* A resync of u1 whose customer lists one entitlement replaced, a tick after
\* the deployment started, the one row an earlier resync of u1 had written.
C38_Witness ==
    /\ lastCall.op = "fullResync"
    /\ lastCall.user = "u1" /\ lastCall.upstream = "ok"
    /\ ~lastCall.threw
    /\ lastCall.deleted = 1
    /\ Cardinality(ByUser(entitlements, "u1")) = 1
    /\ \A r \in ByUser(entitlements, "u1") \cup ByUser(subscribers, "u1") :
          r.lastSyncedAt = now
    /\ now > 0

\* lastSyncedAt of the subscriber document of u (-1 when there is none).
StampOf(subs, u) ==
    IF ByUser(subs, u) = {} THEN 0 - 1
    ELSE (CHOOSE r \in ByUser(subs, u) : TRUE).lastSyncedAt

\* The entitlement ids a fetch result lists.
IdsOf(list) == {list[i].entitlementId : i \in 1 .. Len(list)}

\* C39: when resyncs of the same user run concurrently, a resync whose fetch
\* returned older state never overwrites the rows of a resync whose fetch
\* returned newer state: once all have finished, the user's entitlement rows
\* are those of the latest fetch, and the subscriber's lastSyncedAt never
\* decreases.
C39_LatestFetchWins ==
    /\ []((Running # {} /\ \A d \in Running : d.pc = "done") =>
            \A d \in Running :
               (\A d2 \in Running : d2.fetchedAt <= d.fetchedAt) =>
                  {r.entitlementId : r \in ByUser(entitlements, d.user)}
                     = IdsOf(d.result.entitlements))
    /\ [][\A u \in Users : StampOf(subscribers', u) >= StampOf(subscribers, u)]_vars

\* C40: every entitlement row written by a sync path (syncSubscriber,
\* pollForEntitlement, webhook resync) has isActive = true and no
\* gracePeriodExpiresDate; the cache these paths produce never holds a row
\* with isActive = false or with a grace period.
C40_RowsActiveWithoutGrace ==
    \A r \in entitlements :
        /\ r.isActive = TRUE
        /\ r.gracePeriodExpiresDate = NoDate

\* A poll iteration wrote two rows for u1, one of an entitlement without
\* expiry, while u2 holds the row a webhook resync or a syncSubscriber call
\* wrote.
C40_Witness ==
    /\ lastCall.op = "pollForEntitlement" /\ lastCall.user = "u1"
    /\ Cardinality(ByUser(entitlements, "u1")) = 2
    /\ \E r \in ByUser(entitlements, "u1") : r.expiresDate = NoDate
    /\ ByUser(entitlements, "u2") # {}

====
